---- MODULE Spec2Model ----
(***************************************************************************)
(* The /ws/chat session layer of the Persian voice chatbot backend         *)
(* (backend/main.py) with its collaborators: the connection registry, the  *)
(* connection-limit gate and the audio/text validators                     *)
(* (backend/middleware/validation.py), and the voice pipeline              *)
(* (backend/services/audio_processor.py).  Spec is the session layer,      *)
(* VoiceSpec the voice pipeline called on its own, IntentSpec the intent   *)
(* and response services (backend/services/huggingface_service.py and      *)
(* ai_models.py), RateSpec the rate limiter of                             *)
(* backend/middleware/security.py, ValidatorSpec the validators called on  *)
(* their own, HealthSpec the /ready endpoint beside connections that open  *)
(* and close, HistorySpec the rolling history of a session, and LoopSpec   *)
(* the session layer with the event loop held by the calls that block it.  *)
(*                                                                         *)
(* main.py binds the services of services/ when its imports succeed and    *)
(* its own placeholder classes when they fail; both are modelled.          *)
(*                                                                         *)
(* Every connection is served by one task of a single cooperative event    *)
(* loop.  An action is what a task does between two points where it can be *)
(* suspended (an await on the network or on a pipeline call).  A send on a *)
(* transport whose client is still there completes within the step; a send *)
(* on a transport whose client has gone raises.                            *)
(***************************************************************************)
EXTENDS Naturals, Integers, Sequences, FiniteSets, TLC

\* ------------------------------------------------------------------ bounds
\* What the clients do, all together: connection attempts on /ws/chat plus
\* inbound frames sent.
MaxClientOps == 3

\* Words (or characters) of the texts the text functions are called with.
MaxTextLen == 2
\* HTTP requests the rate limiter sees.
MaxRequests == 4
\* Utterances a session records.
MaxUtterances == 11

\* ------------------------------------------------------- program constants
max_connections == 2  \* MAX_WEBSOCKET_CONNECTIONS as supplied by the environment
max_size_mb == 10     \* MAX_AUDIO_SIZE_MB
max_length == 1000    \* MAX_TEXT_LENGTH
min_length == 1       \* MIN_TEXT_LENGTH

max_requests == 2     \* MAX_REQUESTS_PER_MINUTE as supplied by the environment
window == 60          \* timedelta(minutes=1), in seconds

max_size_bytes == max_size_mb * 1024 * 1024

Conns == 1..MaxClientOps

\* uuid.uuid4(): the k-th identifier drawn by the task serving connection c;
\* all identifiers are distinct.
uuid4(c, k) == <<c, k>>
Ids == {uuid4(c, k) : c \in Conns, k \in 1..2}
NoId == <<0, 0>>

\* --------------------------------------------------------------- alphabet
\* A text is a sequence of character classes: "p" a Persian letter, "l" a
\* Latin letter, "d" a digit or symbol, "s" white space.
Texts == {<< >>, <<"d">>, <<"p">>}
\* Lengths of the decoded audio payloads the clients send.
AudioSizes == {1000, max_size_bytes + 1}

\* An inbound frame as it is on the wire.  json: "invalid" is not JSON,
\* "array" is JSON that is no object, "object" is a JSON object; type is the
\* object's "type" member ("absent" when it has none).
Frame(j, ty, tx, sz) == [json |-> j, type |-> ty, text |-> tx, size |-> sz]
Frames ==
    {Frame("invalid", "absent", << >>, 0), Frame("array", "absent", << >>, 0),
     Frame("object", "absent", << >>, 0), Frame("object", "bogus", << >>, 0),
     Frame("object", "ping", << >>, 0)}
    \cup {Frame("object", "text", t, 0) : t \in Texts}
    \cup {Frame("object", "audio", << >>, n) : n \in AudioSizes}

\* --------------------------------------- services/audio_processor.py
\* Further character classes of a text: "g" a Persian word of the positive
\* list, "n" one of the negative list, "x" one of the excited list.
PersianClasses == {"p", "g", "n", "x"}

\* What the Google recognizer can return, and the sentences of the mock.
GoogleTexts == {<< >>, <<"p">>, <<"g">>, <<"d">>}
MockTexts == {<<"p">>, <<"g">>}

min_audio_bytes == 1000  \* len(audio_data) < 1000
min_confidence == 10     \* stt_result['confidence'] < 0.1, in hundredths

\* The engines load_stt_engines and load_tts_engines can leave loaded.
STTEngineSets == {{"google"}, {"mock"}}
TTSEngineSets == {{"gtts"}, {"edge_tts"}, {"gtts", "edge_tts"}, {"mock"}}

\* A byte string is << >> (b'') or a tuple naming what produced it.  A run
\* of a pipeline function is what it invoked, in order, and what it returned.
Run(log, ret) == [log |-> log, ret |-> ret]
After(prefix, runs) == {Run(prefix \o r.log, r.ret) : r \in runs}

analyze_emotion_happy_first(text) ==
    IF \E k \in 1..Len(text) : text[k] = "g" THEN "happy"
    ELSE IF \E k \in 1..Len(text) : text[k] = "x" THEN "excited"
    ELSE IF \E k \in 1..Len(text) : text[k] = "n" THEN "sad"
    ELSE "neutral"

\* VoiceProcessor._analyze_emotion
analyze_emotion(text) ==
    IF \E k \in 1..Len(text) : text[k] = "x" THEN "excited"
    ELSE IF \E k \in 1..Len(text) : text[k] = "g" THEN "happy"
    ELSE IF \E k \in 1..Len(text) : text[k] = "n" THEN "sad"
    ELSE "neutral"

google_stt_accepts_failure ==
    {Run(<<"google">>, [engine |-> e, text |-> t, confidence |-> 90]) :
        e \in {"google", "fallback"}, t \in GoogleTexts}

\* MultiEngineSTT._google_stt_transcribe: a transcription, or the fallback
\* result when anything raised.
google_stt_transcribe ==
    {Run(<<"google">>, [engine |-> "google", text |-> t, confidence |-> 90]) :
        t \in GoogleTexts}
    \cup {Run(<<"google">>, [engine |-> "fallback", text |-> <<"p">>,
                             confidence |-> 0])}

\* MultiEngineSTT.performance_scores as load_stt_engines fills it, in
\* hundredths.
performance_scores(engines) == [e \in engines |-> 85]

transcribe_mock_first(engines) ==
    After(<<"transcribe_with_best_engine">>,
          {Run(<<"mock">>, [engine |-> "mock", text |-> t,
                            confidence |-> 85]) : t \in MockTexts})

\* MultiEngineSTT.transcribe_with_best_engine
transcribe_with_best_engine(engines) ==
    After(<<"transcribe_with_best_engine">>,
          IF "google" \in engines
          THEN google_stt_transcribe
          ELSE {Run(<<"mock">>, [engine |-> "mock", text |-> t,
                                 confidence |-> 85]) : t \in MockTexts})

\* MultiEngineTTS._generate_silence: the waveform, or b'' when writing it
\* raised.
generate_silence(duration) ==
    {Run(<<"silence">>, <<"silence", duration>>), Run(<<"silence">>, << >>)}

\* MultiEngineTTS._gtts_synthesize: the import succeeds only where
\* load_tts_engines found gTTS; any failure ends in silence.
gtts_synthesize(engines, text) ==
    (IF "gtts" \in engines THEN {Run(<<"gtts">>, <<"gtts", text>>)} ELSE {})
    \cup After(<<"gtts">>, generate_silence("2.0"))

voice_map(emotion) ==
    IF emotion = "sad" THEN "fa-IR-FaridNeural" ELSE "fa-IR-DilaraNeural"

\* MultiEngineTTS._edge_tts_synthesize: the chunks of type audio of the
\* stream, joined (b'' when the stream carried none); any failure goes on
\* to gTTS.
edge_tts_synthesize(engines, text, emotion) ==
    {Run(<<"edge_tts">>, <<"edge_tts", text, voice_map(emotion)>>),
     Run(<<"edge_tts">>, << >>)}
    \cup After(<<"edge_tts">>, gtts_synthesize(engines, text))

synthesize_gtts_first(engines, text, emotion) ==
    IF "gtts" \in engines THEN gtts_synthesize(engines, text)
    ELSE IF "edge_tts" \in engines THEN edge_tts_synthesize(engines, text, emotion)
    ELSE generate_silence("2.0")

\* MultiEngineTTS.synthesize_with_best_engine
synthesize_with_best_engine(engines, text, emotion) ==
    IF "edge_tts" \in engines THEN edge_tts_synthesize(engines, text, emotion)
    ELSE IF "gtts" \in engines THEN gtts_synthesize(engines, text)
    ELSE generate_silence("2.0")

\* VoiceProcessor.generate_voice_response
generate_voice_response(engines, text, emotion) ==
    synthesize_with_best_engine(engines, text, emotion)

FailureSilent(message, runs) ==
    {Run(r.log, [success |-> FALSE, message |-> "", audio |-> r.ret]) :
        r \in runs}

\* A result with success False: its message, and the audio of an apology.
Failure(message, runs) ==
    {Run(r.log, [success |-> FALSE, message |-> message, audio |-> r.ret]) :
        r \in runs}

TopLevelReraise(tts) == {Run(<<"exception">>, [raised |-> TRUE])}

\* process_voice_input, its except clause.
TopLevelExcept(tts) ==
    After(<<"exception">>,
          Failure("processing_error",
                  synthesize_with_best_engine(tts, "apology_error", "neutral")))

\* Runs of process_voice_input whose local stt_result was s.
WithSTT(s, runs) ==
    {[log |-> r.log, ret |-> r.ret, stt_result |-> s.ret] : r \in runs}

AfterTranscriptionUngated(tts, s) ==
    WithSTT(s,
        IF s.ret.text = << >>
        THEN After(s.log,
                   Failure("not_recognized",
                           synthesize_with_best_engine(tts, "apology_not_recognized",
                                                       "sad")))
        ELSE {Run(s.log \o <<"analyze_emotion">>,
                  [success |-> TRUE, text |-> s.ret.text,
                   emotion |-> analyze_emotion(s.ret.text),
                   engine_used |-> s.ret.engine,
                   confidence |-> s.ret.confidence])})

\* process_voice_input, after the transcription s: the confidence gate, then
\* the emotion step.
AfterTranscription(tts, s) ==
    WithSTT(s,
        IF s.ret.text = << >> \/ s.ret.confidence < min_confidence
        THEN After(s.log,
                   Failure("not_recognized",
                           synthesize_with_best_engine(tts, "apology_not_recognized",
                                                       "sad")))
        ELSE {Run(s.log \o <<"analyze_emotion">>,
                  [success |-> TRUE, text |-> s.ret.text,
                   emotion |-> analyze_emotion(s.ret.text),
                   engine_used |-> s.ret.engine,
                   confidence |-> s.ret.confidence])})

TranscribeBeforeSizeCheck(stt, tts, n) ==
    UNION {IF n = 0 \/ n < min_audio_bytes
           THEN After(s.log,
                      Failure("too_short",
                              synthesize_with_best_engine(tts, "apology_too_short",
                                                          "neutral")))
           ELSE AfterTranscription(tts, s) :
           s \in transcribe_with_best_engine(stt)}

\* VoiceProcessor.process_voice_input on a payload of n bytes.  A statement
\* of the try block that raises enters the except clause.
process_voice_input(stt, tts, n) ==
    IF n = 0 \/ n < min_audio_bytes
    THEN Failure("too_short",
                 synthesize_with_best_engine(tts, "apology_too_short", "neutral"))
    ELSE UNION {AfterTranscription(tts, s) : s \in transcribe_with_best_engine(stt)}
         \cup After(<<"transcribe_with_best_engine">>, TopLevelExcept(tts))

\* dict.get(key, default)
Get(d, key, default) == IF key \in DOMAIN d THEN d[key] ELSE default

\* The sequences over S of at most n elements.
SeqsUpTo(S, n) == UNION {[1..k -> S] : k \in 0..n}

\* ------------------------------------ services/huggingface_service.py
\* A text given to the intent engine is a sequence of words.  The words, in
\* transliteration: salam and Hello (capitalised) are of the greeting list,
\* mamnoon of the thanks list, khodahafez of the goodbye list, komak of the
\* help list, hava of the weather list, chera (why) of the question list,
\* chetor (how) of the help list and of the question list, chetori of the
\* greeting list (chetor occurs in it), ketab of no list.
Words == {"salam", "Hello", "mamnoon", "khodahafez", "komak", "hava", "chera",
          "chetor", "chetori", "ketab"}

\* str.lower() of a word.
lower(w) == IF w = "Hello" THEN "hello" ELSE w

\* len() of a word.
WordLen(w) ==
    IF w \in {"komak", "hava", "chera"} THEN 3
    ELSE IF w \in {"salam", "chetor", "ketab"} THEN 4
    ELSE IF w = "khodahafez" THEN 7
    ELSE 5

RECURSIVE Chars(_)
\* len(text.strip()) of a text whose words are one space apart.
Chars(text) ==
    IF text = << >> THEN 0
    ELSE IF Len(text) = 1 THEN WordLen(text[1])
    ELSE WordLen(Head(text)) + 1 + Chars(Tail(text))

greeting_patterns == {"salam", "hello", "chetori"}
thanks_patterns == {"mamnoon"}
goodbye_patterns == {"khodahafez"}
help_patterns == {"komak", "chetor"}
weather_patterns == {"hava"}
question_patterns == {"chera", "chetor"}

\* pattern in text: the pattern occurs somewhere in the text.
In(pattern, text) ==
    \E k \in 1..Len(text) :
        \/ text[k] = pattern
        \/ pattern = "chetor" /\ text[k] = "chetori"

\* any(word in text_lower for word in patterns)
AnyIn(patterns, text) ==
    LET text_lower == [k \in 1..Len(text) |-> lower(text[k])]
    IN  \E word \in patterns : In(word, text_lower)

\* An intent result; confidences are in hundredths.
Intent(i, c) == [intent |-> i, confidence |-> c]

rule_based_question_first(text) ==
    IF AnyIn(question_patterns, text) THEN Intent("question", 70)
    ELSE IF AnyIn(greeting_patterns, text) THEN Intent("greeting", 90)
    ELSE IF AnyIn(thanks_patterns, text) THEN Intent("thanks", 90)
    ELSE IF AnyIn(goodbye_patterns, text) THEN Intent("goodbye", 90)
    ELSE IF AnyIn(help_patterns, text) THEN Intent("request_help", 80)
    ELSE IF AnyIn(weather_patterns, text) THEN Intent("weather_inquiry", 80)
    ELSE Intent("general_conversation", 50)

\* HuggingFaceService._rule_based_intent
rule_based_intent(text) ==
    IF AnyIn(greeting_patterns, text) THEN Intent("greeting", 90)
    ELSE IF AnyIn(thanks_patterns, text) THEN Intent("thanks", 90)
    ELSE IF AnyIn(goodbye_patterns, text) THEN Intent("goodbye", 90)
    ELSE IF AnyIn(help_patterns, text) THEN Intent("request_help", 80)
    ELSE IF AnyIn(weather_patterns, text) THEN Intent("weather_inquiry", 80)
    ELSE IF AnyIn(question_patterns, text) THEN Intent("question", 70)
    ELSE Intent("general_conversation", 50)

\* HuggingFaceService.intent_labels, which are the keys of persian_responses.
intent_labels ==
    {"greeting", "question", "request_help", "thanks", "goodbye",
     "weather_inquiry", "general_conversation", "complaint", "compliment"}

\* None
None == [none |-> TRUE]
IsNone(v) == "none" \in DOMAIN v

\* The scores the zero-shot classifier can give its first label.
APIScores == {30, 95}

\* HuggingFaceService._free_intent_classification: the first label and its
\* score, or None when the request failed.
free_intent_classification(text) ==
    {Run(<<"free_intent_classification">>, Intent(l, sc)) :
        l \in intent_labels, sc \in APIScores}
    \cup {Run(<<"free_intent_classification">>, None)}

\* HuggingFaceService._rule_based_intent as a call.
RuleBased(text) == {Run(<<"rule_based_intent">>, rule_based_intent(text))}

\* HuggingFaceService.understand_intent
hf_understand_intent(token, text) ==
    IF token
    THEN UNION {IF IsNone(r.ret) THEN After(r.log, RuleBased(text)) ELSE {r} :
                r \in free_intent_classification(text)}
    ELSE RuleBased(text)

\* A response string is a sequence of pieces: a template of an intent, a
\* suffix, a generated text of k characters; << >> is the empty string.
Piece(kind, of, k) == [kind |-> kind, of |-> of, k |-> k]

\* None, where a string is expected.
NoResponse == <<Piece("None", "", 0)>>

\* HuggingFaceService.persian_responses[intent], five templates an intent.
persian_responses(intent) == {<<Piece("template", intent, k)>> : k \in 1..5}

\* datetime.now().hour
Hours == 0..23

\* HuggingFaceService._add_context_to_response
add_context_to_response(base_response, user_text, intent, hour) ==
    IF intent = "greeting"
    THEN IF 5 <= hour /\ hour < 12
         THEN base_response \o <<Piece("time_of_day", "morning", 0)>>
         ELSE IF 12 <= hour /\ hour < 17
         THEN base_response \o <<Piece("time_of_day", "noon", 0)>>
         ELSE IF 17 <= hour /\ hour < 20
         THEN base_response \o <<Piece("time_of_day", "evening", 0)>>
         ELSE base_response \o <<Piece("time_of_day", "night", 0)>>
    ELSE IF intent = "question" /\ user_text # << >>
    THEN IF In("chetor", user_text) \/ AnyIn({"how"}, user_text)
         THEN base_response \o <<Piece("encouragement", "guide", 0)>>
         ELSE IF In("chera", user_text) \/ AnyIn({"why"}, user_text)
         THEN base_response \o <<Piece("encouragement", "reasons", 0)>>
         ELSE base_response
    ELSE base_response

\* Lengths of the assistant's part of a generated text.
GeneratedLengths == {0, 5, 6, 10, 11, 199, 200}

free_text_generation_unchecked(text) ==
    {Run(<<"free_text_generation">>,
         IF n > 0 THEN <<Piece("generated", "assistant", n)>> ELSE NoResponse) :
        n \in GeneratedLengths}
    \cup {Run(<<"free_text_generation">>, NoResponse)}

\* HuggingFaceService._free_text_generation: the assistant's part when it
\* has more than 5 and fewer than 200 characters, None otherwise and when
\* the request failed.
free_text_generation(text) ==
    {Run(<<"free_text_generation">>,
         IF n > 5 /\ n < 200
         THEN <<Piece("generated", "assistant", n)>>
         ELSE NoResponse) : n \in GeneratedLengths}
    \cup {Run(<<"free_text_generation">>, NoResponse)}

\* len(response.strip())
StrLen(response) == IF response = << >> THEN 0 ELSE response[1].k

\* HuggingFaceService.generate_response(*args), args the arguments after
\* self: intent_data, and user_text when given.
hf_generate_response(token, args) ==
    LET intent_data == args[1]
        user_text == IF Len(args) >= 2 THEN args[2] ELSE << >>
        general == {Run(<< >>, t) :
                       t \in persian_responses("general_conversation")}
    IN  After(<<"generate_response">>,
          IF IsNone(intent_data)
          THEN {Run(<<"exception">>,
                    <<Piece("apology", "response_generation_failed", 0)>>)}
          ELSE LET intent == Get(intent_data, "intent", "general_conversation")
                   confidence == Get(intent_data, "confidence", 50)
               IN  IF confidence > 60 /\ intent \in intent_labels
                   THEN {Run(<<"add_context_to_response">>,
                             add_context_to_response(base, user_text, intent, hour)) :
                            base \in persian_responses(intent), hour \in Hours}
                   ELSE IF token /\ user_text # << >> /\ Chars(user_text) > 5
                   THEN UNION {IF r.ret # NoResponse /\ StrLen(r.ret) > 10
                               THEN {r} ELSE After(r.log, general) :
                               r \in free_text_generation(user_text)}
                   ELSE general)

\* ------------------------------------------- services/ai_models.py
\* AIModels.responses[intent], four templates an intent.
ai_intents == {"greeting", "question", "help", "thanks", "goodbye", "default"}
ai_responses(intent) == {<<Piece("ai_template", intent, k)>> : k \in 1..4}

\* A call that raised instead of returning a string.
RaisedTypeError == <<Piece("raised", "TypeError", 0)>>

\* AIModels.generate_response(*args), args the arguments after self: the
\* method has the one parameter intent_data.
ai_generate_response(args) ==
    After(<<"generate_response">>,
      IF Len(args) # 1
      THEN {Run(<< >>, RaisedTypeError)}
      ELSE LET intent_data == args[1]
           IN  IF IsNone(intent_data)
               THEN {Run(<<"exception">>,
                         <<Piece("apology", "no_suitable_response", 0)>>)}
               ELSE LET intent == Get(intent_data, "intent", "default")
                        confidence == Get(intent_data, "confidence", 50)
                        responses == IF intent \in ai_intents
                                     THEN ai_responses(intent)
                                     ELSE ai_responses("default")
                        entities == Get(intent_data, "entities", 0)
                    IN  {Run(<< >>,
                             IF entities > 0
                             THEN t \o <<Piece("entities", "identified", entities)>>
                             ELSE t) :
                            t \in IF confidence > 80 THEN responses
                                   ELSE ai_responses("default")})

\* ------------------------------------- main.py: the services in use
\* The placeholder VoiceProcessor of main.py.
placeholder_voice_result ==
    [success |-> TRUE, text |-> <<"p">>, emotion |-> "neutral",
     engine_used |-> "placeholder", confidence |-> 80]

\* Of a result, what handle_audio_message reads.
AsRead(r) ==
    IF r.success THEN r ELSE [success |-> FALSE, message |-> r.message]

\* Results of voice_processor.process_voice_input on a payload of n bytes.
VoiceResults(sv, n) ==
    IF sv = "placeholder"
    THEN {placeholder_voice_result}
    ELSE {AsRead(r.ret) : r \in UNION {process_voice_input(stt, tts, n) :
                                         stt \in STTEngineSets,
                                         tts \in TTSEngineSets}}

VARIABLES
    connections,         \* connection_manager.connections (its keys)
    active_connections,  \* websocket_validator.active_connections
    pc,                  \* where the endpoint task of each connection stands
    client_id,           \* the endpoint's local client_id
    handshake,           \* what the endpoint has made of the opening handshake
    gone,                \* the client has dropped the transport
    inbox,               \* frames sent by the client, not yet received
    rcvd,                \* frames receive_json has consumed, in order
    hpc,                 \* per received frame: where its handler stands
    sent,                \* outbound frames delivered, in order
    invoked,             \* pipeline calls made, per received frame
    event,               \* last event the endpoint logged for the connection
    services,            \* which service classes main.py has bound
    voice_result,        \* handle_audio_message's local voice_result
    response_text,       \* the handlers' local response_text
    stt_engines,         \* MultiEngineSTT.engines (its keys)
    tts_engines,         \* MultiEngineTTS.engines (its keys)
    call,                \* the call of a service made last
    trace,               \* what that call invoked, in order
    returned,            \* what that call returned
    hf_token,            \* HuggingFaceService.hf_token is set
    requests,            \* RateLimitMiddleware.requests
    now,                 \* what datetime.now() reads, in seconds
    responses,           \* what the rate limiter made of each request
    history              \* Session.history of the session of each connection

handler_locals == <<voice_result, response_text>>
pipeline_vars == <<stt_engines, tts_engines, call, trace, returned>>
service_vars == <<hf_token, requests, now, responses, history>>

vars == <<connections, active_connections, pc, client_id, handshake, gone,
          inbox, rcvd, hpc, sent, invoked, event, services, voice_result,
          response_text, stt_engines, tts_engines, call, trace, returned,
          hf_token, requests, now, responses, history>>

Running == {"await_voice", "await_intent", "await_response", "await_tts",
            "await_err_tts"}

\* ------------------------------------------- middleware/validation.py

\* WebSocketValidator.validate_connection_limit: TRUE when it returns, FALSE
\* when it raises HTTPException(503).
validate_connection_limit(active) == ~(Cardinality(active) >= max_connections)

add_connection(active, id) == active \cup {id}

remove_connection_leak(active, id) == active

remove_connection(active, id) == active \ {id}

validate_audio_size_any(n) == TRUE

\* AudioValidator.validate_audio_size: TRUE when it returns True, FALSE when
\* it raises HTTPException(413).
validate_audio_size(n) == ~(n > max_size_bytes)

IsBlank(text) == \A k \in 1..Len(text) : text[k] = "s"

\* TextValidator.validate_text_input: FALSE when it raises HTTPException(400).
validate_text_input(text) ==
    /\ ~(text = << >> \/ IsBlank(text))
    /\ ~(Len(text) > max_length)
    /\ ~(Len(text) < min_length)

\* The characters from U+0600 to U+06FF and from U+FB50 to U+FDFF: the
\* Persian letters and words, and "a", a character of these blocks that is
\* no letter (a Persian digit, the Arabic comma or question mark).
ArabicBlocks == PersianClasses \cup {"a"}

\* TextValidator.validate_language_input: FALSE when it raises.  "e" is a
\* Latin letter whose lower case is not between 'a' and 'z', such as an
\* accented one.
validate_language_input(text) ==
    LET persian_chars == \E k \in 1..Len(text) : text[k] \in ArabicBlocks
        english_chars == \E k \in 1..Len(text) : text[k] = "l"
    IN  persian_chars \/ english_chars

\* --------------------------------------------- middleware/security.py

clean_inclusive(times, t) == SelectSeq(times, LAMBDA req_time : t - req_time <= window)

\* RateLimitMiddleware.dispatch, "clean old requests": the times of the
\* list that are less than a minute before t.
clean(times, t) == SelectSeq(times, LAMBDA req_time : t - req_time < window)

\* ------------------------------------------------------ the Session
\* websocket/connection_manager.py is imported by main.py and is not among
\* the sources; the history of a Session is modelled from the data model of
\* the specification: a bounded rolling history of the last 10 utterances,
\* an ordered sequence of strings, oldest evicted first.

history_limit == 10

add_to_history_unbounded(h, utterance) == Append(h, utterance)

\* The session records an utterance.
add_to_history(h, utterance) ==
    LET recorded == Append(h, utterance)
    IN  IF Len(recorded) > history_limit THEN Tail(recorded) ELSE recorded

\* ------------------------------------------ main.py: ConnectionManager

\* ConnectionManager.connect registers the socket under a fresh uuid.
connect(conns, id) == conns \cup {id}

disconnect_all(conns, id) == {}

\* ConnectionManager.disconnect
disconnect(conns, id) == IF id \in conns THEN conns \ {id} ELSE conns

NoResult == [none |-> TRUE]
NoCall == [fn |-> "none"]

\* The addresses HTTP requests come from.
ClientIPs == {"ip1", "ip2"}

\* HuggingFaceService and RateLimitMiddleware as constructed, without a
\* token, before any request; no session has recorded anything.
ServicesAtRest ==
    /\ hf_token = FALSE
    /\ requests = [ip \in ClientIPs |-> << >>]
    /\ now = 0
    /\ responses = << >>
    /\ history = [c \in Conns |-> << >>]

Init ==
    /\ connections = {}
    /\ active_connections = {}
    /\ pc = [c \in Conns |-> "idle"]
    /\ client_id = [c \in Conns |-> NoId]
    /\ handshake = [c \in Conns |-> "none"]
    /\ gone = [c \in Conns |-> FALSE]
    /\ inbox = [c \in Conns |-> << >>]
    /\ rcvd = [c \in Conns |-> << >>]
    /\ hpc = [c \in Conns |-> << >>]
    /\ sent = [c \in Conns |-> << >>]
    /\ invoked = [c \in Conns |-> {}]
    /\ event = [c \in Conns |-> "none"]
    /\ services \in {"imported", "placeholder"}
    /\ voice_result = [c \in Conns |-> NoResult]
    /\ response_text = [c \in Conns |-> "none"]
    /\ stt_engines = {} /\ tts_engines = {}
    /\ call = NoCall /\ trace = << >> /\ returned = NoResult
    /\ ServicesAtRest


\* ------------------------------------------------------- shared fragments

RECURSIVE FramesOn(_)
\* Frames the clients have sent on connections 1..n (received or still queued).
FramesOn(n) ==
    IF n = 0 THEN 0 ELSE Len(inbox[n]) + Len(rcvd[n]) + FramesOn(n - 1)

\* Connection attempts and frame sends made so far.
ClientOps == Cardinality({c \in Conns : pc[c] # "idle"}) + FramesOn(MaxClientOps)

\* What the logging call that follows the send in a handler's try block
\* can do.
Outcomes == {"ok", "raise"}

\* What the endpoint logs when a send on a dropped transport raises: the
\* except clause taken depends on the exception the transport raises.
SendFailureEvents == {"disconnected", "websocket_error"}

\* An outbound frame: its type, the inbound frame it answers (0 for none)
\* and the timestamp member every frame is built with.
Reply(ty, i) == [type |-> ty, re |-> i, timestamp |-> TRUE]

\* base64.b64encode(...).decode()
b64encode(bytes) == IF bytes = << >> THEN << >> ELSE <<"base64">> \o bytes

\* What a call of the intent engine made by a handler can do.  Neither
\* understand_intent raises (services/ai_models.py catches everything, the
\* placeholder has nothing to raise).  generate_response is called with
\* (intent_data, text): the placeholder takes both, AIModels.generate_response
\* of services/ai_models.py takes intent_data only and the call raises
\* TypeError.
CallOutcomes(sv, fn) ==
    IF fn = "generate_response" /\ sv = "imported" THEN {"raise"} ELSE {"ok"}

\* What generate_response returns.
ResponseTexts(sv) == {"placeholder_reply"}

\* What voice_processor.generate_voice_response(text, emotion) returns.
VoiceAudio(sv, text, emotion) ==
    IF sv = "placeholder"
    THEN {<<"fake_audio_data">>}
    ELSE {r.ret : r \in UNION {generate_voice_response(tts, text, emotion) :
                                  tts \in TTSEngineSets}}

\* handle_audio_message, the frame sent for a voice result without success.
VoiceFailureFrame(r, i) ==
    Reply("error", i)
    @@ [message |-> Get(r, "message", "Voice processing failed")]

DispatchNoPing(f) ==
    IF f.json = "invalid" THEN "invalid_json"
    ELSE IF f.json # "object" THEN "non_object"
    ELSE IF f.type \in {"audio", "text"} THEN f.type
    ELSE "unsupported"

\* The branch of the endpoint's loop an inbound frame takes.
Dispatch(f) ==
    IF f.json = "invalid" THEN "invalid_json"
    ELSE IF f.json # "object" THEN "non_object"
    ELSE IF f.type \in {"ping", "audio", "text"} THEN f.type
    ELSE "unsupported"

\* The i-th frame received on c was of this type.
TypeOf(c, i) == rcvd[c][i].type

\* websocket_endpoint, the finally clause: the registries forget id.
EndpointExit(c, id, ev) ==
    /\ pc' = [pc EXCEPT ![c] = "done"]
    /\ event' = [event EXCEPT ![c] = ev]
    /\ connections' = disconnect(connections, id)
    /\ active_connections' = remove_connection(active_connections, id)

LoopPcDetached(type) == "recv"

\* Where the endpoint's loop stands once a frame of this type is dispatched:
\* the audio and text handlers are awaited.
LoopPcAfterDispatch(type) ==
    IF type \in {"audio", "text"} THEN "handling" ELSE "recv"

NoBreakOnTimeout == FALSE

\* The timeout clause of the loop ends with break.
BreaksOnTimeout == TRUE

\* The handler of the i-th frame returns to the loop, which goes back to
\* receive_json.
HandlerReturns(c, i) ==
    /\ hpc' = [hpc EXCEPT ![c][i] = "returned"]
    /\ pc' = [pc EXCEPT ![c] = IF @ = "handling" THEN "recv" ELSE @]
    /\ UNCHANGED <<connections, active_connections, event>>

\* An exception leaves the handler of the i-th frame: the endpoint that
\* awaits it logs it and runs its finally clause.
HandlerRaises(c, i) ==
    /\ hpc' = [hpc EXCEPT ![c][i] = "raised"]
    /\ IF pc[c] = "handling"
       THEN \E ev \in SendFailureEvents : EndpointExit(c, client_id[c], ev)
       ELSE UNCHANGED <<pc, event, connections, active_connections>>

\* The except clause of a handler, entered for the i-th frame (of type ty)
\* after the frames `out` were delivered by the try block and with `inv` the
\* calls made so far.  The audio handler first awaits the apology audio; the
\* text handler sends its error frame at once.
ExceptClause(c, i, ty, out, inv) ==
    IF ty = "audio"
    THEN /\ hpc' = [hpc EXCEPT ![c][i] = "await_err_tts"]
         /\ invoked' = [invoked EXCEPT ![c] =
                           inv \cup {<<i, "generate_voice_response">>}]
         /\ sent' = [sent EXCEPT ![c] = @ \o out]
         /\ UNCHANGED <<pc, event, connections, active_connections>>
    ELSE /\ invoked' = [invoked EXCEPT ![c] = inv]
         /\ IF ~gone[c]
            THEN /\ sent' = [sent EXCEPT ![c] =
                                (@ \o out) \o <<Reply("error", i)
                                                @@ [message |-> "text_processing_error"]>>]
                 /\ HandlerReturns(c, i)
            ELSE /\ sent' = [sent EXCEPT ![c] = @ \o out]
                 /\ HandlerRaises(c, i)

\* The last statements of a handler's try block: send the response frame,
\* then log it.  A failed send and a failed log both enter the except clause.
SendResponse(c, i, ty, frame) ==
    IF gone[c]
    THEN ExceptClause(c, i, ty, << >>, invoked[c])
    ELSE \E log \in Outcomes :
            IF log = "ok"
            THEN /\ sent' = [sent EXCEPT ![c] = Append(@, frame)]
                 /\ HandlerReturns(c, i)
                 /\ UNCHANGED invoked
            ELSE ExceptClause(c, i, ty, <<frame>>, invoked[c])

\* receive_json hands the head of the inbox to the loop.
Take(c) ==
    /\ inbox' = [inbox EXCEPT ![c] = Tail(@)]
    /\ rcvd' = [rcvd EXCEPT ![c] = Append(@, Head(inbox[c]))]

\* A frame the loop answers itself (pong, or an error frame): the send
\* either delivers it or raises out of the loop.
AnswerInLoop(c, ty, ev) ==
    /\ hpc' = [hpc EXCEPT ![c] = Append(@, "none")]
    /\ IF ~gone[c]
       THEN /\ sent' = [sent EXCEPT ![c] = Append(@, Reply(ty, Len(rcvd[c]) + 1))]
            /\ event' = [event EXCEPT ![c] = ev]
            /\ UNCHANGED <<pc, connections, active_connections>>
       ELSE /\ \E e \in SendFailureEvents : EndpointExit(c, client_id[c], e)
            /\ UNCHANGED sent

\* ------------------------------------------------------------ the clients

\* A client opens /ws/chat: the endpoint task starts, draws a client_id and
\* checks the connection limit.  The HTTPException(503) of a refusal is
\* caught and logged by the endpoint's own except clause and the finally
\* clause runs: the endpoint returns having neither accepted nor closed the
\* socket nor sent anything on it (handshake "abandoned"; a refusal that
\* reached the client would be "refused").
ClientConnect(c) ==
    /\ pc[c] = "idle"
    /\ UNCHANGED <<services, handler_locals, pipeline_vars, service_vars>>
    /\ \A d \in Conns : d < c => pc[d] # "idle"
    /\ ClientOps < MaxClientOps
    /\ client_id' = [client_id EXCEPT ![c] = uuid4(c, 1)]
    /\ IF validate_connection_limit(active_connections)
       THEN /\ pc' = [pc EXCEPT ![c] = "accepting"]
            /\ handshake' = [handshake EXCEPT ![c] = "pending"]
            /\ UNCHANGED <<connections, active_connections, event>>
       ELSE /\ EndpointExit(c, uuid4(c, 1), "websocket_error_503")
            /\ handshake' = [handshake EXCEPT ![c] = "abandoned"]
    /\ UNCHANGED <<gone, inbox, rcvd, hpc, sent, invoked>>

\* A client whose connection is open sends a frame.
ClientSend(c, f) ==
    /\ handshake[c] = "accepted" /\ ~gone[c] /\ pc[c] # "done"
    /\ UNCHANGED <<services, handler_locals, pipeline_vars, service_vars>>
    /\ ClientOps < MaxClientOps
    /\ inbox' = [inbox EXCEPT ![c] = Append(@, f)]
    /\ UNCHANGED <<connections, active_connections, pc, client_id, handshake,
                   gone, rcvd, hpc, sent, invoked, event>>

\* A client drops its transport.
ClientDisconnect(c) ==
    /\ pc[c] \notin {"idle", "done"} /\ ~gone[c]
    /\ UNCHANGED <<services, handler_locals, pipeline_vars, service_vars>>
    /\ gone' = [gone EXCEPT ![c] = TRUE]
    /\ UNCHANGED <<connections, active_connections, pc, client_id, handshake,
                   inbox, rcvd, hpc, sent, invoked, event>>

\* ------------------------------------------------- websocket_endpoint

\* websocket.accept() completes; connect() and add_connection() register the
\* connection without a further suspension.
AcceptDone(c) ==
    /\ pc[c] = "accepting"
    /\ UNCHANGED <<services, handler_locals, pipeline_vars, service_vars>>
    /\ IF gone[c]
       THEN /\ \E e \in SendFailureEvents : EndpointExit(c, client_id[c], e)
            /\ handshake' = [handshake EXCEPT ![c] = "abandoned"]
            /\ UNCHANGED client_id
       ELSE /\ handshake' = [handshake EXCEPT ![c] = "accepted"]
            /\ client_id' = [client_id EXCEPT ![c] = uuid4(c, 2)]
            /\ connections' = connect(connections, uuid4(c, 2))
            /\ active_connections' = add_connection(active_connections, uuid4(c, 2))
            /\ event' = [event EXCEPT ![c] = "connected"]
            /\ pc' = [pc EXCEPT ![c] = "recv"]
    /\ UNCHANGED <<gone, inbox, rcvd, hpc, sent, invoked>>

\* receive_json raises JSONDecodeError: an error frame, and the loop goes on.
RecvInvalidJson(c) ==
    /\ pc[c] = "recv" /\ inbox[c] # << >>
    /\ UNCHANGED <<services, handler_locals, pipeline_vars, service_vars>>
    /\ Dispatch(Head(inbox[c])) = "invalid_json"
    /\ Take(c)
    /\ AnswerInLoop(c, "error", "invalid_json")
    /\ UNCHANGED <<client_id, handshake, gone, invoked>>

\* receive_json returns a JSON value that is no object: data.get raises
\* AttributeError, which only the endpoint's outer except clause catches.
RecvNonObject(c) ==
    /\ pc[c] = "recv" /\ inbox[c] # << >>
    /\ UNCHANGED <<services, handler_locals, pipeline_vars, service_vars>>
    /\ Dispatch(Head(inbox[c])) = "non_object"
    /\ Take(c)
    /\ hpc' = [hpc EXCEPT ![c] = Append(@, "none")]
    /\ EndpointExit(c, client_id[c], "websocket_error")
    /\ UNCHANGED <<client_id, handshake, gone, sent, invoked>>

\* {"type": "ping"}: a pong frame, and the loop goes on.
RecvPing(c) ==
    /\ pc[c] = "recv" /\ inbox[c] # << >>
    /\ UNCHANGED <<services, handler_locals, pipeline_vars, service_vars>>
    /\ Dispatch(Head(inbox[c])) = "ping"
    /\ Take(c)
    /\ AnswerInLoop(c, "pong", event[c])
    /\ UNCHANGED <<client_id, handshake, gone, invoked>>

\* An object whose type is none of ping, audio, text (or is missing).
RecvUnsupported(c) ==
    /\ pc[c] = "recv" /\ inbox[c] # << >>
    /\ UNCHANGED <<services, handler_locals, pipeline_vars, service_vars>>
    /\ Dispatch(Head(inbox[c])) = "unsupported"
    /\ Take(c)
    /\ AnswerInLoop(c, "error", event[c])
    /\ UNCHANGED <<client_id, handshake, gone, invoked>>

ReceiveTimeoutAnytime(c) ==
    /\ pc[c] \in {"recv", "handling"} /\ inbox[c] = << >> /\ ~gone[c]
    /\ UNCHANGED <<services, handler_locals, pipeline_vars, service_vars>>
    /\ pc' = [pc EXCEPT ![c] = "timeout_send"]
    /\ event' = [event EXCEPT ![c] = "timeout"]
    /\ UNCHANGED <<connections, active_connections, client_id, handshake, gone,
                   inbox, rcvd, hpc, sent, invoked>>

\* The idle window of the wait for a frame runs out.
ReceiveTimeout(c) ==
    /\ pc[c] = "recv" /\ inbox[c] = << >> /\ ~gone[c]
    /\ UNCHANGED <<services, handler_locals, pipeline_vars, service_vars>>
    /\ pc' = [pc EXCEPT ![c] = "timeout_send"]
    /\ event' = [event EXCEPT ![c] = "timeout"]
    /\ UNCHANGED <<connections, active_connections, client_id, handshake, gone,
                   inbox, rcvd, hpc, sent, invoked>>

\* The send of the timeout frame completes (or raises), then break.
TimeoutSent(c) ==
    /\ pc[c] = "timeout_send"
    /\ UNCHANGED <<services, handler_locals, pipeline_vars, service_vars>>
    /\ IF gone[c]
       THEN /\ \E e \in SendFailureEvents : EndpointExit(c, client_id[c], e)
            /\ UNCHANGED sent
       ELSE /\ sent' = [sent EXCEPT ![c] = Append(@, Reply("timeout", 0))]
            /\ IF BreaksOnTimeout
               THEN EndpointExit(c, client_id[c], "timeout")
               ELSE /\ pc' = [pc EXCEPT ![c] = "recv"]
                    /\ UNCHANGED <<connections, active_connections, event>>
    /\ UNCHANGED <<client_id, handshake, gone, inbox, rcvd, hpc, invoked>>

\* The wait for a frame finds the transport dropped: WebSocketDisconnect.
ReceiveDisconnect(c) ==
    /\ pc[c] = "recv" /\ inbox[c] = << >> /\ gone[c]
    /\ UNCHANGED <<services, handler_locals, pipeline_vars, service_vars>>
    /\ EndpointExit(c, client_id[c], "disconnected")
    /\ UNCHANGED <<client_id, handshake, gone, inbox, rcvd, hpc, sent, invoked>>


\* ----------------------------------------------- handle_audio_message

\* An audio frame is received and handle_audio_message is entered: the
\* payload is decoded and its size validated; then process_voice_input is
\* awaited, or the except clause is entered.
RecvAudio(c) ==
    /\ pc[c] = "recv" /\ inbox[c] # << >>
    /\ UNCHANGED <<services, handler_locals, pipeline_vars, service_vars>>
    /\ Dispatch(Head(inbox[c])) = "audio"
    /\ Take(c)
    /\ LET i == Len(rcvd[c]) + 1
       IN  IF validate_audio_size(Head(inbox[c]).size)
           THEN /\ hpc' = [hpc EXCEPT ![c] = Append(@, "await_voice")]
                /\ invoked' = [invoked EXCEPT ![c] =
                                  @ \cup {<<i, "process_voice_input">>}]
           ELSE /\ hpc' = [hpc EXCEPT ![c] = Append(@, "await_err_tts")]
                /\ invoked' = [invoked EXCEPT ![c] =
                                  @ \cup {<<i, "generate_voice_response">>}]
    /\ pc' = [pc EXCEPT ![c] = LoopPcAfterDispatch("audio")]
    /\ UNCHANGED <<connections, active_connections, client_id, handshake, gone,
                   sent, event>>

\* process_voice_input is over.  A result without success is answered with
\* an error frame; otherwise a non-empty transcription is validated and
\* understand_intent is awaited.
VoiceDone(c, i) ==
    /\ UNCHANGED <<services, response_text, pipeline_vars, service_vars>>
    /\ i \in 1..Len(hpc[c]) /\ hpc[c][i] = "await_voice"
    /\ \E r \in VoiceResults(services, rcvd[c][i].size) :
          /\ voice_result' = [voice_result EXCEPT ![c] = r]
          /\ IF ~Get(r, "success", FALSE)
             THEN IF ~gone[c]
                  THEN /\ sent' = [sent EXCEPT ![c] =
                                      Append(@, VoiceFailureFrame(r, i))]
                       /\ HandlerReturns(c, i)
                       /\ UNCHANGED invoked
                  ELSE ExceptClause(c, i, "audio", << >>, invoked[c])
             ELSE LET extracted_text == Get(r, "text", << >>)
                  IN  IF /\ extracted_text # << >>
                         /\ ~(/\ validate_text_input(extracted_text)
                              /\ validate_language_input(extracted_text))
                      THEN ExceptClause(c, i, "audio", << >>, invoked[c])
                      ELSE /\ hpc' = [hpc EXCEPT ![c][i] = "await_intent"]
                           /\ invoked' = [invoked EXCEPT ![c] =
                                             @ \cup {<<i, "understand_intent">>}]
                           /\ UNCHANGED <<pc, event, connections,
                                          active_connections, sent>>
    /\ UNCHANGED <<client_id, handshake, gone, inbox, rcvd>>

\* generate_voice_response for the reply is over: the message frame is sent.
TtsDone(c, i) ==
    /\ i \in 1..Len(hpc[c]) /\ hpc[c][i] = "await_tts"
    /\ UNCHANGED <<services, handler_locals, pipeline_vars, service_vars>>
    /\ \E response_audio \in VoiceAudio(services, response_text[c],
                                          Get(voice_result[c], "emotion", "neutral")) :
          SendResponse(c, i, "audio",
                       Reply("message", i)
                       @@ [user_message |-> Get(voice_result[c], "text", << >>),
                           bot_message |-> response_text[c],
                           audio |-> b64encode(response_audio),
                           emotion |-> Get(voice_result[c], "emotion", "neutral"),
                           confidence |-> Get(voice_result[c], "confidence", 0),
                           engine_used |-> Get(voice_result[c], "engine_used",
                                               "unknown")])
    /\ UNCHANGED <<client_id, handshake, gone, inbox, rcvd>>

\* The except clause's generate_voice_response is over: the error frame,
\* with the apology audio, is sent.
ErrTtsDone(c, i) ==
    /\ i \in 1..Len(hpc[c]) /\ hpc[c][i] = "await_err_tts"
    /\ UNCHANGED <<services, handler_locals, pipeline_vars, service_vars>>
    /\ \E error_audio \in VoiceAudio(services, "apology_handler", "sad") :
          IF ~gone[c]
          THEN /\ sent' = [sent EXCEPT ![c] =
                              Append(@, Reply("error", i)
                                        @@ [message |-> "audio_processing_error",
                                            audio |-> b64encode(error_audio)])]
               /\ HandlerReturns(c, i)
          ELSE /\ HandlerRaises(c, i)
               /\ UNCHANGED sent
    /\ UNCHANGED <<client_id, handshake, gone, inbox, rcvd, invoked>>

\* ------------------------------------------------ handle_text_message

\* A text frame is received and handle_text_message is entered: the text is
\* validated; then understand_intent is awaited, or the except clause sends
\* the error frame.
RecvText(c) ==
    /\ pc[c] = "recv" /\ inbox[c] # << >>
    /\ UNCHANGED <<services, handler_locals, pipeline_vars, service_vars>>
    /\ Dispatch(Head(inbox[c])) = "text"
    /\ Take(c)
    /\ LET i == Len(rcvd[c]) + 1
           text_input == Head(inbox[c]).text
       IN  IF validate_text_input(text_input) /\ validate_language_input(text_input)
           THEN /\ hpc' = [hpc EXCEPT ![c] = Append(@, "await_intent")]
                /\ invoked' = [invoked EXCEPT ![c] =
                                  @ \cup {<<i, "understand_intent">>}]
                /\ pc' = [pc EXCEPT ![c] = LoopPcAfterDispatch("text")]
                /\ UNCHANGED <<connections, active_connections, sent, event>>
           ELSE /\ UNCHANGED invoked
                /\ IF ~gone[c]
                   THEN /\ hpc' = [hpc EXCEPT ![c] = Append(@, "returned")]
                        /\ sent' = [sent EXCEPT ![c] = Append(@, Reply("error", i))]
                        /\ UNCHANGED <<pc, connections, active_connections, event>>
                   ELSE /\ hpc' = [hpc EXCEPT ![c] = Append(@, "raised")]
                        /\ \E e \in SendFailureEvents :
                              EndpointExit(c, client_id[c], e)
                        /\ UNCHANGED sent
    /\ UNCHANGED <<client_id, handshake, gone>>

\* ------------------------------------------------- both handlers

\* understand_intent is over: generate_response is awaited.
IntentDone(c, i) ==
    /\ i \in 1..Len(hpc[c]) /\ hpc[c][i] = "await_intent"
    /\ UNCHANGED <<services, handler_locals, pipeline_vars, service_vars>>
    /\ \E o \in CallOutcomes(services, "understand_intent") :
          IF o = "ok"
          THEN /\ hpc' = [hpc EXCEPT ![c][i] = "await_response"]
               /\ invoked' = [invoked EXCEPT ![c] =
                                 @ \cup {<<i, "generate_response">>}]
               /\ UNCHANGED <<pc, event, connections, active_connections, sent>>
          ELSE ExceptClause(c, i, TypeOf(c, i), << >>, invoked[c])
    /\ UNCHANGED <<client_id, handshake, gone, inbox, rcvd>>

\* generate_response is over: the text handler sends its text_response
\* frame, the audio handler awaits generate_voice_response.
ResponseDone(c, i) ==
    /\ UNCHANGED <<services, voice_result, pipeline_vars, service_vars>>
    /\ i \in 1..Len(hpc[c]) /\ hpc[c][i] = "await_response"
    /\ \E o \in CallOutcomes(services, "generate_response") :
          IF o = "raise"
          THEN /\ ExceptClause(c, i, TypeOf(c, i), << >>, invoked[c])
               /\ UNCHANGED response_text
          ELSE \E text \in ResponseTexts(services) :
                 /\ response_text' = [response_text EXCEPT ![c] = text]
                 /\ IF TypeOf(c, i) = "audio"
                    THEN /\ hpc' = [hpc EXCEPT ![c][i] = "await_tts"]
                         /\ invoked' = [invoked EXCEPT ![c] =
                                           @ \cup {<<i, "generate_voice_response">>}]
                         /\ UNCHANGED <<pc, event, connections,
                                        active_connections, sent>>
                    ELSE SendResponse(c, i, "text",
                                      Reply("text_response", i)
                                      @@ [user_message |-> rcvd[c][i].text,
                                          bot_message |-> text])
    /\ UNCHANGED <<client_id, handshake, gone, inbox, rcvd>>

\* ------------------------------------------------------- specification

Next ==
    \/ \E c \in Conns : ClientConnect(c)
    \/ \E c \in Conns, f \in Frames : ClientSend(c, f)
    \/ \E c \in Conns : ClientDisconnect(c)
    \/ \E c \in Conns : AcceptDone(c)
    \/ \E c \in Conns : RecvInvalidJson(c)
    \/ \E c \in Conns : RecvNonObject(c)
    \/ \E c \in Conns : RecvPing(c)
    \/ \E c \in Conns : RecvUnsupported(c)
    \/ \E c \in Conns : RecvAudio(c)
    \/ \E c \in Conns : RecvText(c)
    \/ \E c \in Conns : ReceiveTimeout(c)
    \/ \E c \in Conns : TimeoutSent(c)
    \/ \E c \in Conns : ReceiveDisconnect(c)
    \/ \E c \in Conns, i \in 1..MaxClientOps : VoiceDone(c, i)
    \/ \E c \in Conns, i \in 1..MaxClientOps : IntentDone(c, i)
    \/ \E c \in Conns, i \in 1..MaxClientOps : ResponseDone(c, i)
    \/ \E c \in Conns, i \in 1..MaxClientOps : TtsDone(c, i)
    \/ \E c \in Conns, i \in 1..MaxClientOps : ErrTtsDone(c, i)

Spec == Init /\ [][Next]_vars

\* ------------------------------------------- the voice pipeline alone
\* services/audio_processor.py, called directly: the engines are those the
\* constructors loaded, every call runs to its return.

\* Payload lengths, texts and emotions the pipeline is called with.
VoiceSizes == {0, min_audio_bytes - 1, min_audio_bytes}
SpokenTexts == {"placeholder_reply", "apology_handler"}
Emotions == {"neutral", "happy", "sad", "excited"}

session_vars == <<connections, active_connections, pc, client_id, handshake,
                  gone, inbox, rcvd, hpc, sent, invoked, event, services,
                  voice_result, response_text>>

VoiceInit ==
    /\ connections = {}
    /\ active_connections = {}
    /\ pc = [c \in Conns |-> "idle"]
    /\ client_id = [c \in Conns |-> NoId]
    /\ handshake = [c \in Conns |-> "none"]
    /\ gone = [c \in Conns |-> FALSE]
    /\ inbox = [c \in Conns |-> << >>]
    /\ rcvd = [c \in Conns |-> << >>]
    /\ hpc = [c \in Conns |-> << >>]
    /\ sent = [c \in Conns |-> << >>]
    /\ invoked = [c \in Conns |-> {}]
    /\ event = [c \in Conns |-> "none"]
    /\ services = "imported"
    /\ voice_result = [c \in Conns |-> NoResult]
    /\ response_text = [c \in Conns |-> "none"]
    /\ stt_engines \in STTEngineSets
    /\ tts_engines \in TTSEngineSets
    /\ call = NoCall /\ trace = << >> /\ returned = NoResult
    /\ ServicesAtRest

\* voice_processor.process_voice_input(audio_data), len(audio_data) = n;
\* call keeps the local stt_result of the run, when it came to have one.
ProcessVoiceInput(n) ==
    /\ \E r \in process_voice_input(stt_engines, tts_engines, n) :
          /\ call' = [fn |-> "process_voice_input", size |-> n,
                      stt_result |-> IF "stt_result" \in DOMAIN r
                                     THEN r.stt_result ELSE NoResult]
          /\ trace' = r.log
          /\ returned' = r.ret
    /\ UNCHANGED <<session_vars, stt_engines, tts_engines, service_vars>>

\* voice_processor.stt.transcribe_with_best_engine(audio_data)
Transcribe(n) ==
    /\ \E r \in transcribe_with_best_engine(stt_engines) :
          /\ call' = [fn |-> "transcribe_with_best_engine", size |-> n]
          /\ trace' = r.log
          /\ returned' = r.ret
    /\ UNCHANGED <<session_vars, stt_engines, tts_engines, service_vars>>

\* voice_processor.generate_voice_response(text, emotion)
GenerateVoiceResponse(text, emotion) ==
    /\ \E r \in generate_voice_response(tts_engines, text, emotion) :
          /\ call' = [fn |-> "generate_voice_response", text |-> text,
                      emotion |-> emotion]
          /\ trace' = r.log
          /\ returned' = r.ret
    /\ UNCHANGED <<session_vars, stt_engines, tts_engines, service_vars>>

\* Texts the emotion step is given: Persian words, words of its three
\* lists, digits.
EmotionTexts == SeqsUpTo(PersianClasses \cup {"d"}, MaxTextLen)

\* voice_processor._analyze_emotion(text)
AnalyzeEmotion(text) ==
    /\ call' = [fn |-> "analyze_emotion", utterance |-> text]
    /\ trace' = <<"analyze_emotion">>
    /\ returned' = analyze_emotion(text)
    /\ UNCHANGED <<session_vars, stt_engines, tts_engines, service_vars>>

VoiceNext ==
    \/ \E n \in VoiceSizes : ProcessVoiceInput(n)
    \/ \E n \in VoiceSizes : Transcribe(n)
    \/ \E text \in SpokenTexts, emotion \in Emotions :
          GenerateVoiceResponse(text, emotion)
    \/ \E text \in EmotionTexts : AnalyzeEmotion(text)

VoiceSpec == VoiceInit /\ [][VoiceNext]_vars

\* ------------------------------------------- the intent engine alone
\* services/huggingface_service.py and AIModels.generate_response, called
\* directly: the call is made with the arguments drawn and runs to its
\* return.

\* No client has connected.
SessionAtRest ==
    /\ connections = {}
    /\ active_connections = {}
    /\ pc = [c \in Conns |-> "idle"]
    /\ client_id = [c \in Conns |-> NoId]
    /\ handshake = [c \in Conns |-> "none"]
    /\ gone = [c \in Conns |-> FALSE]
    /\ inbox = [c \in Conns |-> << >>]
    /\ rcvd = [c \in Conns |-> << >>]
    /\ hpc = [c \in Conns |-> << >>]
    /\ sent = [c \in Conns |-> << >>]
    /\ invoked = [c \in Conns |-> {}]
    /\ event = [c \in Conns |-> "none"]
    /\ services = "imported"
    /\ voice_result = [c \in Conns |-> NoResult]
    /\ response_text = [c \in Conns |-> "none"]

\* Texts, intents and confidences the intent engine is called with.
IntentTexts == SeqsUpTo(Words, MaxTextLen)
UserTexts == SeqsUpTo({"salam", "chetor", "chera", "ketab"}, MaxTextLen)
Intents == intent_labels \cup {"unknown"}
Confidences == {50, 60, 61, 90}
IntentData ==
    {Intent(i, c) : i \in Intents, c \in Confidences}
    \cup {[intent |-> "greeting"], None}
AIIntentData ==
    {[intent |-> i, confidence |-> c, entities |-> e] :
        i \in {"greeting", "default", "request_help"}, c \in {80, 95},
        e \in {0, 1}}
    \cup {None}

HF == "HuggingFaceService"
AI == "AIModels"

IntentInit ==
    /\ SessionAtRest
    /\ stt_engines = {} /\ tts_engines = {}
    /\ trace = << >> /\ returned = NoResult
    /\ requests = [ip \in ClientIPs |-> << >>]
    /\ now = 0
    /\ responses = << >>
    /\ history = [c \in Conns |-> << >>]
    /\ hf_token \in BOOLEAN
    /\ \/ \E t \in IntentTexts :
             call = [service |-> HF, fn |-> "rule_based_intent", text |-> t]
       \/ \E t \in IntentTexts :
             call = [service |-> HF, fn |-> "understand_intent", text |-> t]
       \/ \E d \in IntentData, t \in UserTexts :
             call = [service |-> HF, fn |-> "generate_response", args |-> <<d, t>>]
       \/ \E d \in AIIntentData :
             call = [service |-> AI, fn |-> "generate_response", args |-> <<d>>]
       \/ \E d \in AIIntentData :
             call = [service |-> AI, fn |-> "generate_response",
                     args |-> <<d, <<"salam">>>>]

\* The call drawn is this one and has not been made.
Called(service, fn) ==
    /\ trace = << >>
    /\ call.service = service /\ call.fn = fn

\* HuggingFaceService._rule_based_intent(text)
RuleBasedIntent ==
    /\ Called(HF, "rule_based_intent")
    /\ trace' = <<"rule_based_intent">>
    /\ returned' = rule_based_intent(call.text)
    /\ UNCHANGED <<session_vars, stt_engines, tts_engines, call, service_vars>>

\* HuggingFaceService.understand_intent(text)
UnderstandIntent ==
    /\ Called(HF, "understand_intent")
    /\ \E r \in After(<<"understand_intent">>,
                      hf_understand_intent(hf_token, call.text)) :
          /\ trace' = r.log
          /\ returned' = r.ret
    /\ UNCHANGED <<session_vars, stt_engines, tts_engines, call, service_vars>>

\* HuggingFaceService.generate_response(intent_data, user_text)
HFGenerateResponse ==
    /\ Called(HF, "generate_response")
    /\ \E r \in hf_generate_response(hf_token, call.args) :
          /\ trace' = r.log
          /\ returned' = r.ret
    /\ UNCHANGED <<session_vars, stt_engines, tts_engines, call, service_vars>>

\* AIModels.generate_response, called with intent_data alone and, as the
\* handlers of main.py call it, with intent_data and the text.
AIGenerateResponse ==
    /\ Called(AI, "generate_response")
    /\ \E r \in ai_generate_response(call.args) :
          /\ trace' = r.log
          /\ returned' = r.ret
    /\ UNCHANGED <<session_vars, stt_engines, tts_engines, call, service_vars>>

IntentNext ==
    \/ RuleBasedIntent
    \/ UnderstandIntent
    \/ HFGenerateResponse
    \/ AIGenerateResponse

IntentSpec == IntentInit /\ [][IntentNext]_vars


\* ------------------------------------------- the rate limiter alone
\* middleware/security.py, RateLimitMiddleware: HTTP requests arrive one
\* after the other; dispatch reads the clock, cleans the list of the
\* client, and raises HTTPException(429) or records the request and passes
\* it on, without a suspension in between.  The clock does not go back.

\* Seconds between the clock readings of a request and of the one before.
Elapsed == {0, 1, 59, 60}

RateInit ==
    /\ SessionAtRest
    /\ stt_engines = {} /\ tts_engines = {}
    /\ call = NoCall /\ trace = << >> /\ returned = NoResult
    /\ ServicesAtRest

RateLimitDispatchRecordsAll(client_ip, d) ==
    /\ Len(responses) < MaxRequests
    /\ now' = now + d
    /\ LET kept == clean(requests[client_ip], now')
       IN  /\ requests' = [requests EXCEPT ![client_ip] = Append(kept, now')]
           /\ responses' = Append(responses,
                                  [ip |-> client_ip, time |-> now',
                                   status |-> IF Len(kept) >= max_requests
                                              THEN "429" ELSE "call_next"])
    /\ UNCHANGED <<session_vars, pipeline_vars, hf_token, history>>

\* RateLimitMiddleware.dispatch for a request of client_ip, d seconds after
\* the request before.
RateLimitDispatch(client_ip, d) ==
    /\ Len(responses) < MaxRequests
    /\ now' = now + d
    /\ LET kept == clean(requests[client_ip], now')
       IN  IF Len(kept) >= max_requests
           THEN /\ requests' = [requests EXCEPT ![client_ip] = kept]
                /\ responses' = Append(responses,
                                       [ip |-> client_ip, time |-> now',
                                        status |-> "429"])
           ELSE /\ requests' = [requests EXCEPT ![client_ip] = Append(kept, now')]
                /\ responses' = Append(responses,
                                       [ip |-> client_ip, time |-> now',
                                        status |-> "call_next"])
    /\ UNCHANGED <<session_vars, pipeline_vars, hf_token, history>>

RateNext == \E client_ip \in ClientIPs, d \in Elapsed : RateLimitDispatch(client_ip, d)

RateSpec == RateInit /\ [][RateNext]_vars

\* ---------------------------------------------- the validators alone
\* middleware/validation.py, TextValidator: validate_text_input and then
\* validate_language_input are called with one text; returned holds what
\* each of them answered (FALSE for a raised HTTPException).
\* AudioValidator: validate_audio_size is called with one payload.

CharClasses == {"p", "l", "d", "s", "a", "e"}

\* The texts: the short ones, and texts of max_length and of max_length + 1
\* characters.
ValidatedTexts ==
    SeqsUpTo(CharClasses, MaxTextLen)
    \cup {[k \in 1..n |-> c] : n \in {max_length, max_length + 1}, c \in CharClasses}

\* Lengths of the payloads: those of the test (16 bytes, 15 MB) and those
\* around the limit.
PayloadSizes ==
    {0, 16, max_size_bytes - 1, max_size_bytes, max_size_bytes + 1,
     15 * 1024 * 1024}

ValidatorInit ==
    /\ SessionAtRest
    /\ stt_engines = {} /\ tts_engines = {}
    /\ trace = << >> /\ returned = NoResult
    /\ ServicesAtRest
    /\ \/ \E t \in ValidatedTexts : call = [fn |-> "validate_text", text |-> t]
       \/ \E n \in PayloadSizes : call = [fn |-> "validate_audio_size", size |-> n]

\* text_validator.validate_text_input(text)
ValidateTextInput ==
    /\ call.fn = "validate_text"
    /\ trace = << >>
    /\ trace' = <<"validate_text_input">>
    /\ returned' = [text_input |-> validate_text_input(call.text)]
    /\ UNCHANGED <<session_vars, stt_engines, tts_engines, call, service_vars>>

\* text_validator.validate_language_input(text)
ValidateLanguageInput ==
    /\ call.fn = "validate_text"
    /\ trace = <<"validate_text_input">>
    /\ trace' = Append(trace, "validate_language_input")
    /\ returned' = [text_input |-> returned.text_input,
                    language_input |-> validate_language_input(call.text)]
    /\ UNCHANGED <<session_vars, stt_engines, tts_engines, call, service_vars>>

\* audio_validator.validate_audio_size(audio_data)
ValidateAudioSize ==
    /\ call.fn = "validate_audio_size"
    /\ trace = << >>
    /\ trace' = <<"validate_audio_size">>
    /\ returned' = [audio_size |-> validate_audio_size(call.size)]
    /\ UNCHANGED <<session_vars, stt_engines, tts_engines, call, service_vars>>

ValidatorNext == ValidateTextInput \/ ValidateLanguageInput \/ ValidateAudioSize

ValidatorSpec == ValidatorInit /\ [][ValidatorNext]_vars

\* ------------------------------------------- the event loop
\* Spec lets the loop switch tasks at every await of a handler.  A coroutine
\* that is awaited gives the loop away only where it waits itself: LoopSpec
\* is Spec with the loop held through the calls that never do.

\* The await a handler stands at can give the loop to another task.
\* The placeholder services of main.py await nothing.  Of the services of
\* services/: understand_intent and generate_response await nothing;
\* _google_stt_transcribe calls recognize_google and _gtts_synthesize calls
\* write_to_fp, both blocking, and the mock engines only compute;
\* _edge_tts_synthesize alone waits, in async for ... communicate.stream().
\* process_voice_input synthesizes (an apology) only when it fails.
CanSuspend(sv, tts, at) ==
    /\ sv = "imported"
    /\ at \in {"await_voice", "await_tts", "await_err_tts"}
    /\ "edge_tts" \in tts

\* The task of connection d is inside a call that keeps the loop.
HoldsLoop(d) ==
    \E i \in 1..Len(hpc[d]) :
        /\ hpc[d][i] \in Running
        /\ ~CanSuspend(services, tts_engines, hpc[d][i])

\* The loop can run the task of connection c.
LoopFree(c) == \A d \in Conns \ {c} : ~HoldsLoop(d)

\* A step of the endpoint task of connection c.
EndpointStep(c) ==
    \/ ClientConnect(c)
    \/ AcceptDone(c)
    \/ RecvInvalidJson(c)
    \/ RecvNonObject(c)
    \/ RecvPing(c)
    \/ RecvUnsupported(c)
    \/ RecvAudio(c)
    \/ RecvText(c)
    \/ ReceiveTimeout(c)
    \/ TimeoutSent(c)
    \/ ReceiveDisconnect(c)
    \/ \E i \in 1..MaxClientOps : VoiceDone(c, i)
    \/ \E i \in 1..MaxClientOps : IntentDone(c, i)
    \/ \E i \in 1..MaxClientOps : ResponseDone(c, i)
    \/ \E i \in 1..MaxClientOps : TtsDone(c, i)
    \/ \E i \in 1..MaxClientOps : ErrTtsDone(c, i)

LoopStep(c) == LoopFree(c) /\ EndpointStep(c)

\* main.py binds its services and the voice processor loads its engines.
LoopInit ==
    /\ connections = {}
    /\ active_connections = {}
    /\ pc = [c \in Conns |-> "idle"]
    /\ client_id = [c \in Conns |-> NoId]
    /\ handshake = [c \in Conns |-> "none"]
    /\ gone = [c \in Conns |-> FALSE]
    /\ inbox = [c \in Conns |-> << >>]
    /\ rcvd = [c \in Conns |-> << >>]
    /\ hpc = [c \in Conns |-> << >>]
    /\ sent = [c \in Conns |-> << >>]
    /\ invoked = [c \in Conns |-> {}]
    /\ event = [c \in Conns |-> "none"]
    /\ voice_result = [c \in Conns |-> NoResult]
    /\ response_text = [c \in Conns |-> "none"]
    /\ \/ services = "placeholder" /\ stt_engines = {} /\ tts_engines = {}
       \/ /\ services = "imported"
          /\ stt_engines \in STTEngineSets
          /\ tts_engines \in TTSEngineSets
    /\ call = NoCall /\ trace = << >> /\ returned = NoResult
    /\ ServicesAtRest

LoopNext ==
    \/ \E c \in Conns, f \in Frames : ClientSend(c, f)
    \/ \E c \in Conns : ClientDisconnect(c)
    \/ \E c \in Conns : LoopStep(c)

LoopSpec == LoopInit /\ [][LoopNext]_vars

\* ------------------------------------------- the HTTP endpoints
\* main.py, readiness_check: GET /ready is answered in one step of the event
\* loop, between the steps of the websocket endpoints; connections come and
\* go meanwhile.

\* WebSocketValidator.get_active_count
get_active_count(active) == Cardinality(active)

\* ai_models.is_ready() if hasattr(ai_models, 'is_ready') else True: the
\* placeholder's is_ready returns True, AIModels of services/ai_models.py has
\* no is_ready.
ai_service(sv) == TRUE

\* voice_processor.is_ready(), of the placeholder and of VoiceProcessor.
audio_service(sv, stt, tts) ==
    IF sv = "placeholder" THEN TRUE
    ELSE Cardinality(stt) > 0 /\ Cardinality(tts) > 0

\* readiness_check: secret_key is bool(os.getenv("SECRET_KEY")).  The count
\* of connections is an int, so all_ready is all(checks.values()), and the
\* count is one of the values: 0 is false.
readiness_check(secret_key, sv, stt, tts, active) ==
    LET checks == [environment_loaded |-> secret_key,
                   ai_service |-> ai_service(sv),
                   audio_service |-> audio_service(sv, stt, tts),
                   websocket_connections |-> get_active_count(active)]
        all_ready == /\ checks.environment_loaded
                     /\ checks.ai_service
                     /\ checks.audio_service
                     /\ checks.websocket_connections # 0
    IN  [status_code |-> IF all_ready THEN 200 ELSE 503,
         ready |-> all_ready,
         checks |-> checks]

HealthInit == LoopInit

\* GET /ready
ReadinessCheck(secret_key) ==
    /\ call' = [fn |-> "readiness_check", secret_key |-> secret_key]
    /\ trace' = <<"readiness_check">>
    /\ returned' = readiness_check(secret_key, services, stt_engines,
                                   tts_engines, active_connections)
    /\ UNCHANGED <<session_vars, stt_engines, tts_engines, service_vars>>

HealthNext ==
    \/ \E c \in Conns : ClientConnect(c)
    \/ \E c \in Conns : AcceptDone(c)
    \/ \E c \in Conns : ClientDisconnect(c)
    \/ \E c \in Conns : ReceiveDisconnect(c)
    \/ \E secret_key \in BOOLEAN : ReadinessCheck(secret_key)

HealthSpec == HealthInit /\ [][HealthNext]_vars

\* ------------------------------------------- the history of a session
\* The session of the first connection, admitted and waiting for frames,
\* records the utterances it receives; sessions share nothing of their
\* histories, so one is followed.

HistoryTexts == {<<"p">>, <<"l">>}

HistoryInit ==
    /\ connections = {uuid4(1, 2)}
    /\ active_connections = {uuid4(1, 2)}
    /\ pc = [c \in Conns |-> IF c = 1 THEN "recv" ELSE "idle"]
    /\ client_id = [c \in Conns |-> IF c = 1 THEN uuid4(1, 2) ELSE NoId]
    /\ handshake = [c \in Conns |-> IF c = 1 THEN "accepted" ELSE "none"]
    /\ gone = [c \in Conns |-> FALSE]
    /\ inbox = [c \in Conns |-> << >>]
    /\ rcvd = [c \in Conns |-> << >>]
    /\ hpc = [c \in Conns |-> << >>]
    /\ sent = [c \in Conns |-> << >>]
    /\ invoked = [c \in Conns |-> {}]
    /\ event = [c \in Conns |-> IF c = 1 THEN "connected" ELSE "none"]
    /\ services = "imported"
    /\ voice_result = [c \in Conns |-> NoResult]
    /\ response_text = [c \in Conns |-> "none"]
    /\ stt_engines = {} /\ tts_engines = {}
    /\ call = NoCall /\ trace = << >> /\ returned = NoResult
    /\ ServicesAtRest

\* The session of connection c receives a text utterance and records it.
RecordUtterance(c, text) ==
    /\ handshake[c] = "accepted" /\ pc[c] = "recv"
    /\ Len(rcvd[c]) < MaxUtterances
    /\ rcvd' = [rcvd EXCEPT ![c] = Append(@, Frame("object", "text", text, 0))]
    /\ history' = [history EXCEPT ![c] = add_to_history(@, text)]
    /\ UNCHANGED <<connections, active_connections, pc, client_id, handshake,
                   gone, inbox, hpc, sent, invoked, event, services,
                   handler_locals, pipeline_vars, hf_token, requests, now,
                   responses>>

HistoryNext == \E c \in Conns, text \in HistoryTexts : RecordUtterance(c, text)

HistorySpec == HistoryInit /\ [][HistoryNext]_vars

\* ------------------------------------------------------------ properties

\* Handlers of connection c that have started and not ended.
InFlight(c) == {i \in 1..Len(hpc[c]) : hpc[c][i] \in Running}

\* Positions in sent[c] of the frames that answer the i-th received frame.
Replies(c, i) == {k \in 1..Len(sent[c]) : sent[c][k].re = i}

\* Positions in sent[c] of the timeout frames.
TimeoutFrames(c) == {k \in 1..Len(sent[c]) : sent[c][k].type = "timeout"}

\* Neither identifier drawn for connection c is in a registry.
Released(c) ==
    \A k \in 1..2 : /\ uuid4(c, k) \notin connections
                    /\ uuid4(c, k) \notin active_connections

\* C1: under any interleaving of connection attempts and disconnects, the
\* number of admitted connections (the size of active_connections, and of
\* connections) never exceeds max_connections.
C1_ConnectionCeiling ==
    /\ Cardinality(active_connections) <= max_connections
    /\ Cardinality(connections) <= max_connections

\* C2: on every connection at most one audio/text handler is running at any
\* time: no handler starts while an earlier one of the connection still runs.
C2_SingleInFlight == \A c \in Conns : Cardinality(InFlight(c)) <= 1

\* A handler is running while the next audio/text frame of the same
\* connection is already waiting in the inbox.
C2_Witness ==
    \E c \in Conns :
        /\ Cardinality(InFlight(c)) = 1
        /\ inbox[c] # << >>
        /\ Head(inbox[c]).json = "object"
        /\ Head(inbox[c]).type \in {"audio", "text"}

\* C3: when frame M2 of a connection is received, every earlier frame M1 of
\* the connection has its answer sent already, and the outbound frames of a
\* connection are in the order of the inbound frames they answer.
C3_ResponseOrder ==
    \A c \in Conns :
        /\ \A i, j \in 1..Len(rcvd[c]) : i < j => Replies(c, i) # {}
        /\ \A k, l \in 1..Len(sent[c]) :
              (k < l /\ sent[c][k].re > 0 /\ sent[c][l].re > 0)
                  => sent[c][k].re <= sent[c][l].re

\* Two frames of one connection, the first of them an audio or text frame,
\* have both been received and answered.
C3_Witness ==
    \E c \in Conns :
        /\ Len(rcvd[c]) >= 2
        /\ rcvd[c][1].type \in {"audio", "text"}
        /\ hpc[c][1] = "returned"
        /\ Replies(c, 1) # {} /\ Replies(c, 2) # {}

\* C4: for every audio or text frame handled on a connection (whose client
\* is still there), the handler, once it has ended, has sent exactly one
\* outbound frame, on every path through it, and the loop is back at waiting
\* for the next frame.
C4_ExactlyOneFrame ==
    \A c \in Conns : \A i \in 1..Len(hpc[c]) :
        (/\ rcvd[c][i].json = "object"
         /\ rcvd[c][i].type \in {"audio", "text"}
         /\ hpc[c][i] \in {"returned", "raised"}
         /\ ~gone[c])
            => /\ Cardinality(Replies(c, i)) = 1
               /\ hpc[c][i] = "returned"

\* C5: once the endpoint task of a connection has ended, for whatever
\* reason, no identifier of the connection is left in connections or in
\* active_connections.
C5_RegistryRelease == \A c \in Conns : pc[c] = "done" => Released(c)

\* An admitted connection has ended, its identifier is released, and a later
\* connection holds a slot in the registries next to an earlier one.
C5_Witness ==
    \E c, d, e \in Conns :
        /\ c # d /\ c < e /\ d < e
        /\ pc[c] = "done" /\ handshake[c] = "accepted"
        /\ handshake[d] = "accepted" /\ handshake[e] = "accepted"
        /\ active_connections = {uuid4(d, 2), uuid4(e, 2)}
        /\ connections = active_connections

\* C6: every frame received on a connection whose client stays connected is
\* followed by an outbound frame that answers it.  (Stated for the runs that
\* have ended: a frame left unanswered when the endpoint task is over is
\* never answered.)
C6_EveryFrameAnswered ==
    \A c \in Conns :
        (pc[c] = "done" /\ ~gone[c])
            => \A i \in 1..Len(rcvd[c]) : Replies(c, i) # {}

\* C7: a connection attempt made while the registry is full is refused with
\* a capacity error that reaches the client, is never accepted, leaves no
\* entry in a registry and has no frame processed.
C7_CapacityRejection ==
    \A c \in Conns :
        event[c] = "websocket_error_503"
            => /\ handshake[c] = "refused"
               /\ Released(c)
               /\ rcvd[c] = << >>
               /\ sent[c] = << >>

\* A frame that is no JSON, or JSON without a type member, or of a type
\* other than ping, audio, text.
Malformed(f) ==
    \/ f.json = "invalid"
    \/ f.type \notin {"ping", "audio", "text"}

\* C8: every malformed frame received (from a client that is still there) is
\* answered with exactly one error frame, and the connection stays open: the
\* endpoint task does not end on it and the registries keep the connection.
C8_MalformedFrame ==
    \A c \in Conns : \A i \in 1..Len(rcvd[c]) :
        (Malformed(rcvd[c][i]) /\ ~gone[c])
            => /\ Cardinality(Replies(c, i)) = 1
               /\ \A k \in Replies(c, i) : sent[c][k].type = "error"
               /\ ~(pc[c] = "done" /\ i = Len(rcvd[c]) /\ TimeoutFrames(c) = {})
               /\ (pc[c] = "recv" => /\ client_id[c] \in connections
                                     /\ client_id[c] \in active_connections)

\* C9, in every state: a connection on which a timeout frame was sent has
\* exactly one, it is the last frame sent, the endpoint task has ended and
\* the registries have released the connection.
C9_AfterTimeout(c) ==
    TimeoutFrames(c) # {}
        => /\ Cardinality(TimeoutFrames(c)) = 1
           /\ sent[c][Len(sent[c])].type = "timeout"
           /\ pc[c] = "done"
           /\ Released(c)

\* C9, in every step: the idle window running out on a client that is
\* still there ends with the timeout frame being sent, and after it nothing
\* is received, handled or sent on the connection.
C9_Step(c) ==
    /\ (pc[c] = "timeout_send" /\ pc'[c] # "timeout_send" /\ ~gone[c])
          => sent'[c] = Append(sent[c], Reply("timeout", 0))
    /\ TimeoutFrames(c) # {}
          => /\ rcvd'[c] = rcvd[c]
             /\ hpc'[c] = hpc[c]
             /\ sent'[c] = sent[c]
             /\ invoked'[c] = invoked[c]

\* C9: when no frame arrives within the idle window of an open connection,
\* the server sends exactly one timeout frame, which is the last frame sent
\* on the connection, no further inbound frame of the connection is
\* processed and the connection is removed from the registries.
C9_IdleTimeout ==
    /\ [](\A c \in Conns : C9_AfterTimeout(c))
    /\ [][\A c \in Conns : C9_Step(c)]_vars

\* A connection that answered a frame has timed out afterwards, while a
\* further frame of its client was already on the way.
C9_Witness ==
    \E c \in Conns :
        /\ TimeoutFrames(c) # {}
        /\ Len(sent[c]) >= 2
        /\ inbox[c] # << >>
        /\ ~gone[c]

\* A text frame whose text a validator refuses, or an audio frame whose
\* payload is longer than the maximum audio size.
Refused(f) ==
    /\ f.json = "object"
    /\ \/ /\ f.type = "text"
          /\ ~(validate_text_input(f.text) /\ validate_language_input(f.text))
       \/ /\ f.type = "audio"
          /\ f.size > max_size_bytes

PipelineCalls == {"process_voice_input", "understand_intent", "generate_response"}

\* C10, in every state: for a refused frame none of process_voice_input,
\* understand_intent, generate_response is invoked, nothing but an error
\* frame answers it, a handler that returned has sent exactly one, and a
\* handler ends by raising only when the client has gone.
C10_Refused(c, i) ==
    Refused(rcvd[c][i])
        => /\ \A fn \in PipelineCalls : <<i, fn>> \notin invoked[c]
           /\ \A k \in Replies(c, i) : sent[c][k].type = "error"
           /\ hpc[c][i] = "returned" => Cardinality(Replies(c, i)) = 1
           /\ hpc[c][i] = "raised" => gone[c]
           /\ hpc[c][i] \in {"returned", "raised", "await_err_tts"}

\* C10, in every step: when the handler of a refused frame returns, the
\* loop is back at waiting for a frame and the connection is registered.
C10_Step(c, i) ==
    (/\ Refused(rcvd'[c][i])
     /\ hpc'[c][i] = "returned"
     /\ (i > Len(hpc[c]) \/ hpc[c][i] # "returned"))
        => /\ pc'[c] = "recv"
           /\ client_id'[c] \in connections'
           /\ client_id'[c] \in active_connections'

\* C10: a text frame that fails validate_text_input or
\* validate_language_input, and an audio frame whose decoded payload exceeds
\* the maximum audio size, is answered with an error frame without
\* process_voice_input, understand_intent or generate_response being invoked
\* for it, and the connection remains open and registered.
C10_ValidationError ==
    /\ [](\A c \in Conns : \A i \in 1..Len(rcvd[c]) : C10_Refused(c, i))
    /\ [][\A c \in Conns : \A i \in 1..Len(rcvd'[c]) : C10_Step(c, i)]_vars

\* An oversized audio frame and a text frame refused by a validator have
\* both been answered on one connection, which is still open.
C10_Witness ==
    \E c \in Conns :
        /\ Len(rcvd[c]) = 2
        /\ rcvd[c][1].type = "audio" /\ rcvd[c][1].size > max_size_bytes
        /\ rcvd[c][2].type = "text" /\ Refused(rcvd[c][2])
        /\ hpc[c][1] = "returned" /\ hpc[c][2] = "returned"
        /\ Replies(c, 1) # {} /\ Replies(c, 2) # {}
        /\ pc[c] = "recv"

VoiceCalls == {"process_voice_input", "generate_voice_response"}

\* The frame {"type": "ping"}.
IsPing(f) == f.json = "object" /\ f.type = "ping"

\* C11, in every state: a ping frame received from a client that is still
\* there is answered with exactly one frame, a pong that carries a
\* timestamp, and none of process_voice_input, understand_intent,
\* generate_response, generate_voice_response is invoked for it.
C11_Answered(c, i) ==
    (IsPing(rcvd[c][i]) /\ ~gone[c])
        => /\ Cardinality(Replies(c, i)) = 1
           /\ \A k \in Replies(c, i) : /\ sent[c][k].type = "pong"
                                       /\ sent[c][k].timestamp
           /\ \A fn \in PipelineCalls \cup VoiceCalls : <<i, fn>> \notin invoked[c]
           /\ hpc[c][i] = "none"

\* C11, in every step: receiving a ping frame from a client that is still
\* there leaves the loop waiting for the next frame and the registries as
\* they were, the connection in them.
C11_Step(c) ==
    (/\ Len(rcvd'[c]) > Len(rcvd[c])
     /\ IsPing(rcvd'[c][Len(rcvd'[c])])
     /\ ~gone[c])
        => /\ pc'[c] = "recv"
           /\ connections' = connections
           /\ active_connections' = active_connections
           /\ client_id[c] \in connections' /\ client_id[c] \in active_connections'

\* C11: a ping frame on an open connection is answered with exactly one
\* pong frame carrying a timestamp, invokes no pipeline function and leaves
\* the connection open and the registries unchanged.
C11_PingPong ==
    /\ [](\A c \in Conns : \A i \in 1..Len(rcvd[c]) : C11_Answered(c, i))
    /\ [][\A c \in Conns : C11_Step(c)]_vars

\* A ping frame, received after another frame of the connection, has its
\* pong and the connection is open.
C11_Witness ==
    \E c \in Conns :
        /\ Len(rcvd[c]) = 2 /\ IsPing(rcvd[c][2])
        /\ Replies(c, 1) # {} /\ Replies(c, 2) # {}
        /\ sent[c][Len(sent[c])].type = "pong"
        /\ pc[c] = "recv" /\ ~gone[c]

\* A text frame whose text both validators accept.
ValidText(f) ==
    /\ Dispatch(f) = "text"
    /\ validate_text_input(f.text) /\ validate_language_input(f.text)

\* C12: for every text frame whose text passes validation (and whose client
\* is still there), the handler, once over, has called understand_intent and
\* then generate_response and has sent a text_response frame whose
\* user_message is the input text and whose bot_message is the generated
\* response; process_voice_input and generate_voice_response are never
\* invoked for a text frame.
C12_TextResponse ==
    \A c \in Conns : \A i \in 1..Len(hpc[c]) :
        Dispatch(rcvd[c][i]) = "text"
            => /\ \A fn \in VoiceCalls : <<i, fn>> \notin invoked[c]
               /\ <<i, "generate_response">> \in invoked[c]
                     => <<i, "understand_intent">> \in invoked[c]
               /\ (/\ ValidText(rcvd[c][i])
                   /\ hpc[c][i] \in {"returned", "raised"}
                   /\ ~gone[c])
                     => /\ <<i, "understand_intent">> \in invoked[c]
                        /\ <<i, "generate_response">> \in invoked[c]
                        /\ \E k \in Replies(c, i) :
                              /\ sent[c][k].type = "text_response"
                              /\ sent[c][k].user_message = rcvd[c][i].text
                              /\ sent[c][k].bot_message \in ResponseTexts(services)

\* The audio frame received last on c is the i-th frame.
LastAudio(c, i) ==
    /\ Dispatch(rcvd[c][i]) = "audio"
    /\ \A j \in (i + 1)..Len(rcvd[c]) : Dispatch(rcvd[c][j]) # "audio"

\* C13: for every audio frame for which process_voice_input returned
\* success and whose transcription passed validation (understand_intent was
\* reached; the client is still there), the handler, once over, has sent a
\* message frame whose user_message is the transcription, whose emotion,
\* confidence and engine_used are those of the voice result and whose audio
\* is the non-empty base64 encoding of the speech synthesized for
\* bot_message with that emotion.
C13_VoiceMessage ==
    \A c \in Conns : \A i \in 1..Len(hpc[c]) :
        (/\ LastAudio(c, i)
         /\ <<i, "understand_intent">> \in invoked[c]
         /\ hpc[c][i] \in {"returned", "raised"}
         /\ ~gone[c])
            => \E k \in Replies(c, i) :
                  /\ sent[c][k].type = "message"
                  /\ sent[c][k].user_message = voice_result[c].text
                  /\ sent[c][k].emotion = voice_result[c].emotion
                  /\ sent[c][k].confidence = voice_result[c].confidence
                  /\ sent[c][k].engine_used = voice_result[c].engine_used
                  /\ sent[c][k].audio # << >>
                  /\ \E a \in VoiceAudio(services, sent[c][k].bot_message,
                                         voice_result[c].emotion) :
                        sent[c][k].audio = b64encode(a)

\* ------------------------------------- properties of the voice pipeline

\* The call raised instead of returning.
Raised(r) == "raised" \in DOMAIN r

\* The last call was process_voice_input and it returned a result.
ReturnedResult ==
    /\ call.fn = "process_voice_input"
    /\ "success" \in DOMAIN returned

\* Places of the trace where a statement of the try block raised.
Exceptions == {k \in 1..Len(trace) : trace[k] = "exception"}

\* C14: process_voice_input never raises to its caller: whatever the STT
\* engine, the emotion step and the TTS engines do, it returns a result; and
\* when an exception occurred inside it, the result has success False and
\* carries the audio of an apology that synthesize_with_best_engine, the
\* TTS fallback path, produced after the exception.
C14_NeverRaises ==
    call.fn = "process_voice_input"
        => /\ ~Raised(returned)
           /\ "success" \in DOMAIN returned
           /\ \A k \in Exceptions :
                 /\ returned.success = FALSE
                 /\ "audio" \in DOMAIN returned
                 /\ \E r \in synthesize_with_best_engine(tts_engines,
                                                         "apology_error", "neutral") :
                       /\ r.log = SubSeq(trace, k + 1, Len(trace))
                       /\ r.ret = returned.audio

\* An exception occurred after the STT step, the first TTS backend failed
\* and the result carries the apology of a later one.
C14_Witness ==
    /\ ReturnedResult
    /\ Exceptions # {}
    /\ returned.success = FALSE
    /\ returned.audio # << >>
    /\ Len(trace) >= 4

\* C15: every result of process_voice_input with success False carries a
\* non-empty message or a non-empty audio, and the frame the session layer
\* sends for it carries a non-empty message or a non-empty audio.
C15_NoSilentFailure ==
    (ReturnedResult /\ ~returned.success)
        => /\ \/ Get(returned, "message", "") # ""
              \/ Get(returned, "audio", << >>) # << >>
           /\ LET frame == VoiceFailureFrame(AsRead(returned), 1)
              IN  \/ Get(frame, "message", "") # ""
                  \/ Get(frame, "audio", << >>) # << >>

\* A failure whose apology audio is empty: the message alone carries it.
C15_Witness ==
    /\ ReturnedResult /\ ~returned.success
    /\ returned.audio = << >>
    /\ returned.message # ""

\* C16: for every payload shorter than the minimum (the empty one included)
\* process_voice_input returns success False with a non-empty audio,
\* whatever TTS backends are loaded or failing.
C16_ShortPayload ==
    (ReturnedResult /\ call.size < min_audio_bytes)
        => /\ returned.success = FALSE
           /\ Get(returned, "audio", << >>) # << >>

STTSteps == {"transcribe_with_best_engine", "google", "mock"}

\* C17: for every payload below the minimum no STT engine is invoked:
\* transcribe_with_best_engine is not called before the rejection returns.
C17_NoSTTBeforeRejection ==
    (call.fn = "process_voice_input" /\ call.size < min_audio_bytes)
        => \A k \in 1..Len(trace) : trace[k] \notin STTSteps

\* A payload one byte short of the minimum was rejected after the TTS
\* backends were tried for the apology.
C17_Witness ==
    /\ ReturnedResult
    /\ call.size = min_audio_bytes - 1
    /\ returned.success = FALSE
    /\ Len(trace) >= 2

\* C18: synthesize_with_best_engine, and generate_voice_response with it,
\* returns from every call (it never raises), and what it returns is a
\* non-empty byte string, for every text, emotion, set of loaded backends
\* and combination of backend failures.
C18_AlwaysAudio ==
    call.fn = "generate_voice_response" => returned # << >>

TTSOrder == <<"edge_tts", "gtts", "silence">>
Rank(b) == CHOOSE k \in 1..Len(TTSOrder) : TTSOrder[k] = b

\* C19: the TTS backends are tried in the order edge_tts, gTTS, silence; a
\* backend is attempted only when every earlier one is not loaded or was
\* attempted before it (and failed); the audio returned is that of the
\* backend attempted last, the first that did not fail; so the silent
\* waveform is returned only when no backend is loaded or all have failed.
C19_BackendOrder ==
    call.fn = "generate_voice_response"
        => /\ trace # << >>
           /\ \A k \in 1..Len(trace) : trace[k] \in {"edge_tts", "gtts", "silence"}
           /\ \A k, l \in 1..Len(trace) :
                 k < l => Rank(trace[k]) < Rank(trace[l])
           /\ \A k \in 1..Len(trace) : \A b \in {"edge_tts", "gtts"} :
                 Rank(b) < Rank(trace[k])
                     => \/ b \notin tts_engines
                        \/ \E j \in 1..(k - 1) : trace[j] = b
           /\ returned # << >> => returned[1] = trace[Len(trace)]

\* Both backends are loaded, both failed, and the silent waveform is returned.
C19_Witness ==
    /\ call.fn = "generate_voice_response"
    /\ tts_engines = {"gtts", "edge_tts"}
    /\ trace = TTSOrder
    /\ returned = <<"silence", "2.0">>

C21_TerminalFallback ==
    call.fn = "transcribe_with_best_engine"
        => /\ returned.text # << >>
           /\ returned.engine = "fallback" => returned.confidence = 0
           /\ ~(returned.text = << >> /\ returned.confidence > 0)

\* The loaded engine of the highest score.
BestEngine ==
    CHOOSE e \in stt_engines :
        \A f \in stt_engines :
            performance_scores(stt_engines)[f] <= performance_scores(stt_engines)[e]

IsEngine(step) == step \in {"google", "mock"}

EmotionOrder == <<"excited", "happy", "sad", "angry">>
EmotionKeywords(category) ==
    IF category = "excited" THEN {"x"}
    ELSE IF category = "happy" THEN {"g"}
    ELSE IF category = "sad" THEN {"n"}
    ELSE {}

\* Places in EmotionOrder of the categories a word of the text belongs to.
EmotionMatches(text) ==
    {c \in 1..Len(EmotionOrder) :
        \E k \in 1..Len(text) : text[k] \in EmotionKeywords(EmotionOrder[c])}

\* C23: the emotion classifier returns, for every text, one of happy, sad,
\* angry, excited, neutral: the first category, in the order excited, happy,
\* sad, angry, of which a keyword occurs in the text, and neutral when there
\* is none; a text with an excited and a happy keyword yields excited.
C23_EmotionPriority ==
    call.fn = "analyze_emotion"
        => /\ returned \in {"happy", "sad", "angry", "excited", "neutral"}
           /\ LET m == EmotionMatches(call.utterance)
              IN  IF m = {} THEN returned = "neutral"
                  ELSE returned = EmotionOrder[CHOOSE c \in m : \A d \in m : c <= d]

\* A text with a happy keyword followed by an excited one was classified
\* excited.
C23_Witness ==
    /\ call.fn = "analyze_emotion"
    /\ call.utterance = <<"g", "x">>
    /\ returned = "excited"

\* ------------------------------------ properties of the intent engine

\* The keyword families in their order, and of each its list and its
\* confidence.
FamilyOrder == <<"greeting", "thanks", "goodbye", "request_help",
                 "weather_inquiry", "question">>
FamilyPatterns ==
    <<greeting_patterns, thanks_patterns, goodbye_patterns, help_patterns,
      weather_patterns, question_patterns>>
FamilyConfidence == <<90, 90, 90, 80, 80, 70>>

\* Places in FamilyOrder of the families a keyword of which occurs in text.
FamilyMatches(text) ==
    {f \in 1..Len(FamilyOrder) : AnyIn(FamilyPatterns[f], text)}

\* The rule-based classifier was called and has returned.
RuleBasedReturned ==
    /\ call.fn = "rule_based_intent"
    /\ trace # << >>

\* C24: rule-based intent classification returns the first family, in the
\* order greeting, thanks, goodbye, help, weather, question, of which a
\* keyword occurs in the text, with its confidence (0.9, 0.9, 0.9, 0.8,
\* 0.8, 0.7), and general_conversation with 0.5 when there is none.
C24_RuleBasedOrder ==
    RuleBasedReturned
        => LET m == FamilyMatches(call.text)
               first == CHOOSE f \in m : \A g \in m : f <= g
           IN  IF m = {}
               THEN returned = Intent("general_conversation", 50)
               ELSE returned = Intent(FamilyOrder[first], FamilyConfidence[first])

\* A text with a question keyword followed by a greeting was classified a
\* greeting.
C24_Witness ==
    /\ RuleBasedReturned
    /\ call.text = <<"chera", "Hello">>
    /\ returned = Intent("greeting", 90)

\* generate_response was called and is over.
GenerateReturned ==
    /\ call.fn = "generate_response"
    /\ trace # << >>

\* C25: generate_response returns a non-empty response string and never
\* raises, for every intent, known or unknown, every confidence, every user
\* text and every outcome of the generative call.
C25_AlwaysResponds ==
    GenerateReturned
        => /\ returned # RaisedTypeError
           /\ returned # NoResponse
           /\ returned # << >>

\* The intent data of a call of generate_response: a dict with a confidence
\* above the acceptance threshold and an intent that has templates.
Templated(d) ==
    /\ ~IsNone(d)
    /\ Get(d, "confidence", 50) > 60
    /\ Get(d, "intent", "general_conversation") \in intent_labels

\* C26: when the confidence exceeds 0.6 and the intent has a template set,
\* the response generate_response returns is a member of that set.
C26_TemplateMember ==
    (GenerateReturned /\ call.service = HF /\ Templated(call.args[1]))
        => returned \in persian_responses(call.args[1].intent)

\* C27: when the confidence is at most 0.6 or the intent has no template
\* set, generate_response returns a member of the general_conversation
\* template set or the output of the generative call, which is then
\* neither empty nor excessively long (200 characters or more).
C27_LowConfidenceFallback ==
    (/\ GenerateReturned /\ call.service = HF
     /\ ~IsNone(call.args[1]) /\ ~Templated(call.args[1]))
        => \/ returned \in persian_responses("general_conversation")
           \/ /\ \E k \in 1..Len(trace) : trace[k] = "free_text_generation"
              /\ Len(returned) = 1
              /\ returned[1].kind = "generated"
              /\ returned[1].k > 0 /\ returned[1].k < 200

\* For a greeting of confidence 0.6 the generative call was made, its
\* output was not accepted and a general_conversation template is returned.
C27_Witness ==
    /\ GenerateReturned /\ call.service = HF
    /\ call.args[1] = Intent("greeting", 60)
    /\ trace = <<"generate_response", "free_text_generation">>
    /\ returned \in persian_responses("general_conversation")

\* C28: understand_intent takes the rule-based classifier first and the
\* model-based classifier only as a fallback, so the model-based one is not
\* consulted before the rule-based one; and whatever the model-based
\* classifier does, an intent with a confidence in [0, 1] is returned.
C28_RuleBasedPrimary ==
    (call.fn = "understand_intent" /\ trace # << >>)
        => /\ \A k \in 1..Len(trace) :
                 trace[k] = "free_intent_classification"
                     => \E j \in 1..(k - 1) : trace[j] = "rule_based_intent"
           /\ ~IsNone(returned)
           /\ returned.confidence \in 0..100

\* ------------------------------------ properties of the rate limiter

\* The requests of ip the rate limiter admitted, by their place in responses.
Admitted(ip) ==
    {k \in 1..Len(responses) :
        responses[k].ip = ip /\ responses[k].status = "call_next"}

\* C29: for each client IP the requests admitted within any rolling window
\* of 60 seconds (taken from an admitted request on) never exceed
\* max_requests, so of more than max_requests requests within one window at
\* least one is rejected, with 429; and a request is rejected only when
\* max_requests admitted requests are less than 60 seconds old: requests
\* 60 seconds old or older are not counted.
C29_RateLimit ==
    \A ip \in ClientIPs :
        /\ \A k \in Admitted(ip) :
              Cardinality({j \in Admitted(ip) :
                              /\ responses[k].time <= responses[j].time
                              /\ responses[j].time < responses[k].time + window})
                  <= max_requests
        /\ \A k \in 1..Len(responses) :
              (responses[k].ip = ip /\ k \notin Admitted(ip))
                  => /\ responses[k].status = "429"
                     /\ Cardinality({j \in Admitted(ip) :
                                        /\ j < k
                                        /\ responses[k].time - responses[j].time
                                               < window})
                            >= max_requests

\* One client made max_requests requests at once, was rejected 59 seconds
\* later and admitted again 60 seconds after the first requests.
C29_Witness ==
    /\ Len(responses) = 4
    /\ \A k \in 1..4 : responses[k].ip = "ip1"
    /\ responses[1].status = "call_next" /\ responses[2].status = "call_next"
    /\ responses[3].status = "429"
    /\ responses[4].status = "call_next"
    /\ responses[3].time = responses[1].time + window - 1
    /\ responses[4].time = responses[1].time + window

\* ------------------------------------ properties of the text validators

\* The character classes that are letters, Persian or Latin.
Letters == PersianClasses \cup {"l", "e"}
HasLetter(text) == \E k \in 1..Len(text) : text[k] \in Letters

\* C30: a text with at least one Persian or Latin letter and a length from
\* min_length to max_length is accepted by validate_text_input and by
\* validate_language_input; a text that is empty or blank, shorter than
\* min_length, longer than max_length or without any Persian or Latin letter
\* is rejected by at least one of them.
C30_ValidatorsAccept ==
    (call.fn = "validate_text" /\ Len(trace) = 2)
        => LET text == call.text
               both == returned.text_input /\ returned.language_input
           IN  /\ (HasLetter(text) /\ Len(text) >= min_length
                                   /\ Len(text) <= max_length) => both
               /\ (\/ text = << >> \/ IsBlank(text)
                   \/ Len(text) < min_length \/ Len(text) > max_length
                   \/ ~HasLetter(text)) => ~both

\* C31: validate_audio_size returns True for exactly the payloads of at most
\* max_size_mb * 1024 * 1024 bytes, and raises for every longer one.
C31_AudioSizeLimit ==
    (call.fn = "validate_audio_size" /\ trace # << >>)
        => (returned.audio_size <=> call.size <= max_size_mb * 1024 * 1024)

\* A payload of exactly the limit was accepted.
C31_Witness ==
    /\ call.fn = "validate_audio_size" /\ trace # << >>
    /\ call.size = max_size_mb * 1024 * 1024
    /\ returned.audio_size

\* ------------------------------------ properties of the HTTP endpoints

\* C32: readiness_check answers 200 and ready exactly when environment
\* loaded, the AI service and the audio service are all true, and 503
\* otherwise, whatever the number of active websocket connections.
C32_Readiness ==
    call.fn = "readiness_check"
        => LET flags == /\ call.secret_key
                        /\ returned.checks.ai_service
                        /\ returned.checks.audio_service
           IN  /\ returned.status_code = (IF flags THEN 200 ELSE 503)
               /\ returned.ready = flags

\* ------------------------------------ properties of the session history

\* The utterances the session of c has received, in arrival order.
Utterances(c) == [k \in 1..Len(rcvd[c]) |-> rcvd[c][k].text]

EngineCalls == {"await_voice", "await_tts", "await_err_tts"}

\* C34: while an engine call made for one connection is in progress, the
\* loop can run the tasks of the other connections: one that is being
\* admitted can be admitted, and one whose next frame is a ping can have it
\* answered.
C34_EngineCallSuspends ==
    \A c \in Conns :
        (\E i \in 1..Len(hpc[c]) : hpc[c][i] \in EngineCalls)
            => \A d \in Conns \ {c} :
                  (\/ pc[d] = "accepting"
                   \/ /\ pc[d] = "recv" /\ inbox[d] # << >>
                      /\ Dispatch(Head(inbox[d])) = "ping")
                      => ENABLED LoopStep(d)

\* C35: process_voice_input returns success True exactly when the payload
\* has at least 1000 bytes, no exception occurred, and the text of the STT
\* result is non-empty and its confidence at least 0.1; so an STT fallback
\* result, of confidence 0, gives success False; and on success the text,
\* the confidence and engine_used of the result are those of the STT result.
C35_SuccessGate ==
    ReturnedResult
        => LET stt_result == call.stt_result
               passed == /\ call.size >= 1000
                         /\ Exceptions = {}
                         /\ "text" \in DOMAIN stt_result
                         /\ stt_result.text # << >>
                         /\ stt_result.confidence >= 10
           IN  /\ returned.success <=> passed
               /\ ("engine" \in DOMAIN stt_result /\ stt_result.confidence = 0)
                      => ~returned.success
               /\ returned.success
                      => /\ returned.text = stt_result.text
                         /\ returned.confidence = stt_result.confidence
                         /\ returned.engine_used = stt_result.engine

\* The Google recognizer gave a text and the result has success True.
C35_Witness ==
    /\ ReturnedResult
    /\ returned.success
    /\ returned.engine_used = "google"
    /\ call.size >= 1000

\* ------------------------------- further properties of the session layer

\* process_voice_input was awaited for the i-th frame of c, the audio frame
\* received last, and returned a result without success.
VoiceFailed(c, i) ==
    /\ LastAudio(c, i)
    /\ <<i, "process_voice_input">> \in invoked[c]
    /\ hpc[c][i] # "await_voice"
    /\ ~Get(voice_result[c], "success", FALSE)

AfterVoiceCalls == {"understand_intent", "generate_response", "generate_voice_response"}

\* C36: when process_voice_input returned success False for an audio frame,
\* none of understand_intent, generate_response and generate_voice_response
\* is invoked for that frame, and the handler, once over (the client still
\* there), has sent an error frame whose message is that of the result.
C36_VoiceFailureFrame ==
    \A c \in Conns : \A i \in 1..Len(hpc[c]) :
        VoiceFailed(c, i)
            => /\ \A fn \in AfterVoiceCalls : <<i, fn>> \notin invoked[c]
               /\ (hpc[c][i] \in {"returned", "raised"} /\ ~gone[c])
                      => \E k \in Replies(c, i) :
                            /\ sent[c][k].type = "error"
                            /\ sent[c][k].message = voice_result[c].message

\* The connections that were admitted and whose endpoint task has not ended.
Live == {c \in Conns : handshake[c] = "accepted" /\ pc[c] # "done"}

\* C37: in every state, that is wherever the loop can switch tasks, the
\* identifiers in connection_manager.connections are those in
\* websocket_validator.active_connections, and they are the identifiers of
\* the connections admitted and not yet closed; so the count metrics()
\* reports is the number of live sessions.
C37_RegistriesAgree ==
    /\ connections = active_connections
    /\ active_connections = {client_id[c] : c \in Live}
    /\ get_active_count(active_connections) = Cardinality(Live)

\* Of two admitted connections one has ended and the other, still live, is
\* the only one registered.
C37_Witness ==
    \E c, d \in Conns :
        /\ handshake[c] = "accepted" /\ pc[c] = "done"
        /\ d \in Live /\ pc[d] = "handling"
        /\ active_connections = {client_id[d]}

\* In this step nothing of connection b is touched: its identifiers are in
\* the registries as before, its endpoint stands where it stood, and no
\* frame is sent on it.
Untouched(b) ==
    /\ \A k \in 1..2 :
          /\ uuid4(b, k) \in connections' <=> uuid4(b, k) \in connections
          /\ uuid4(b, k) \in active_connections' <=> uuid4(b, k) \in active_connections
    /\ pc'[b] = pc[b]
    /\ handshake'[b] = handshake[b]
    /\ sent'[b] = sent[b]

\* C38: connections are independent: a step of the endpoint or of the client
\* of connection a (a disconnect, a timeout, a malformed frame, an exception
\* of a handler, or any other) never removes or changes an entry of another
\* connection b in the registries, never closes b and never sends a frame
\* on b: a step that touches b is a step of no other connection.
C38_Independent ==
    [][\A b \in Conns :
          \/ Untouched(b)
          \/ \A a \in Conns \ {b} :
                ~(\/ EndpointStep(a)
                  \/ ClientDisconnect(a)
                  \/ \E f \in Frames : ClientSend(a, f))]_vars

\* The endpoint of one connection has ended on an error while another
\* connection is live, registered and has been sent nothing.
C38_Witness ==
    \E a, b \in Conns :
        /\ a # b
        /\ pc[a] = "done" /\ handshake[a] = "accepted"
        /\ event[a] = "websocket_error"
        /\ b \in Live /\ client_id[b] \in active_connections
        /\ sent[b] = << >>

\* ------------------------------ further properties of the rate limiter

\* The requests of ip, by their place in responses.
RequestsOf(ip) == {k \in 1..Len(responses) : responses[k].ip = ip}

\* The admitted requests of ip that were less than 60 seconds old when ip
\* made its last request, in order.
StillCounted(ip) ==
    LET last == responses[CHOOSE k \in RequestsOf(ip) :
                             \A j \in RequestsOf(ip) : j <= k].time
    IN  SelectSeq(responses,
                  LAMBDA r : /\ r.ip = ip /\ r.status = "call_next"
                             /\ last - r.time < window)

\* C39: a rejected request is not recorded: the list of a client holds the
\* times of its admitted requests alone, pruned of those 60 seconds old; so
\* rejected requests do not extend the time the client is limited, and a
\* request is admitted exactly when fewer than max_requests admitted requests
\* of the client are less than 60 seconds old.
C39_RejectedNotRecorded ==
    \A ip \in ClientIPs :
        /\ RequestsOf(ip) = {} => requests[ip] = << >>
        /\ RequestsOf(ip) # {}
              => requests[ip] = [k \in 1..Len(StillCounted(ip)) |->
                                    StillCounted(ip)[k].time]
        /\ \A k \in RequestsOf(ip) :
              responses[k].status = "call_next"
                  <=> Cardinality({j \in Admitted(ip) :
                                      /\ j < k
                                      /\ responses[k].time - responses[j].time
                                             < window})
                         < max_requests

\* A client was rejected one second after its two admitted requests and
\* admitted again 59 seconds later, when these were 60 seconds old and the
\* rejected one was not.
C39_Witness ==
    /\ Len(responses) = 4
    /\ \A k \in 1..4 : responses[k].ip = "ip1"
    /\ responses[1].status = "call_next" /\ responses[2].status = "call_next"
    /\ responses[3].status = "429"
    /\ responses[4].status = "call_next"
    /\ responses[3].time = responses[1].time + 1
    /\ responses[4].time = responses[3].time + window - 1
    /\ requests["ip1"] = <<responses[4].time>>

\* ------------------------------------ the idle window and the handlers

\* A timeout frame is appended to the frames sent on c.
TimeoutFrameSent(c) ==
    /\ Len(sent'[c]) = Len(sent[c]) + 1
    /\ sent'[c][Len(sent'[c])].type = "timeout"

\* C40, in every step: the timeout clause is entered only from the wait for
\* a frame, with no handler of the connection running; while a handler
\* runs, no step enters the timeout clause, sends a timeout frame or ends
\* the endpoint of a client that is still there.
C40_Step(c) ==
    /\ (pc[c] # "timeout_send" /\ pc'[c] = "timeout_send")
          => pc[c] = "recv" /\ InFlight(c) = {}
    /\ TimeoutFrameSent(c) => pc[c] = "timeout_send" /\ InFlight(c) = {}
    /\ InFlight(c) # {}
          => /\ pc'[c] # "timeout_send"
             /\ event'[c] # "timeout"
             /\ ~TimeoutFrameSent(c)
             /\ (pc'[c] = "done" /\ ~gone[c]) => pc[c] = "done"

\* C40: a timeout frame is produced only while the connection waits for an
\* inbound frame: the idle window belongs to one wait and does not run
\* while an audio or text handler executes, so a handler, however long it
\* takes, causes no timeout and does not close the connection.
C40_TimeoutOnlyWhileWaiting ==
    /\ [](\A c \in Conns :
            (pc[c] = "timeout_send" \/ event[c] = "timeout") => InFlight(c) = {})
    /\ [][\A c \in Conns : C40_Step(c)]_vars

\* A handler of a client that is still there and has sent nothing more is
\* running, while another connection, idle meanwhile, has timed out.
C40_Witness ==
    \E c, d \in Conns :
        /\ c # d
        /\ pc[c] = "handling" /\ InFlight(c) # {}
        /\ inbox[c] = << >> /\ ~gone[c]
        /\ TimeoutFrames(d) # {}

====
